---- MODULE Spec2Model ----
(***************************************************************************)
(* A model of fld_parser v0.60 (src/include/field_parser.h): the bump      *)
(* allocator, the lexer, the recursive-descent parser and fld_parse.       *)
(*                                                                         *)
(* Text is a sequence of one-character strings; the terminating NUL of a   *)
(* C string is the value NUL.  Addresses are integers, NULL is 0.  The     *)
(* sizes and alignments are those of an LP64 build (8-byte pointers,       *)
(* 4-byte int).  A float is kept as the exact decimal its digits denote.   *)
(***************************************************************************)
EXTENDS Integers, Sequences, FiniteSets, TLC

VARIABLES
    parser,     \* the fld_parser struct
    text,       \* the bytes of the arena-owned copy of the source
    objs,       \* the fld_object structs in the arena, by address
    arrs,       \* the packed item storage of the arrays, by address
    nullpage,   \* what a read through a null pointer yields, once one happened
    stack,      \* the C call stack below fld_parse: one frame per active call
    ret,        \* the return value of the call that returned last: of the parser's
                \* functions a fld_object * (object) or a fld_value * (value)
    pc,         \* where fld_parse is: idle, running, returned, crashed, hung
    args,       \* the arguments of the fld_parse call
    result,     \* the boolean fld_parse returned
    written,    \* whether any byte of the caller's memory region was written
    smashed,    \* whether the lexer stored past the end of its number buffer
    exhausted,  \* history: whether an arena allocation of the parse returned null
    hist        \* history: the first error the running parse stored

vars == <<parser, text, objs, arrs, nullpage, stack, ret, pc, args, result, written,
          smashed, exhausted, hist>>

NULL == 0
NUL == "NUL"

(***************************************************************************)
(* Characters.                                                             *)
(***************************************************************************)
Ascii ==
    <<" ", "!", "\"", "#", "$", "%", "&", "'", "(", ")", "*", "+", ",", "-", ".", "/",
      "0", "1", "2", "3", "4", "5", "6", "7", "8", "9", ":", ";", "<", "=", ">", "?",
      "@", "A", "B", "C", "D", "E", "F", "G", "H", "I", "J", "K", "L", "M", "N", "O",
      "P", "Q", "R", "S", "T", "U", "V", "W", "X", "Y", "Z", "[", "\\", "]", "^", "_",
      "BACKTICK", "a", "b", "c", "d", "e", "f", "g", "h", "i", "j", "k", "l", "m", "n", "o",
      "p", "q", "r", "s", "t", "u", "v", "w", "x", "y", "z", "{", "|", "}", "~">>

\* the printable characters start at code 32
OrdMap ==
    [ch \in {Ascii[i] : i \in 1..Len(Ascii)} |->
        31 + (CHOOSE i \in 1..Len(Ascii) : Ascii[i] = ch)]

Ord(ch) ==
    CASE ch = NUL  -> 0
      [] ch = "\t" -> 9
      [] ch = "\n" -> 10
      [] ch = "\r" -> 13
      [] OTHER     -> OrdMap[ch]

_is_digit(ch) == Ord(ch) >= Ord("0") /\ Ord(ch) <= Ord("9")

_is_alpha(ch) ==
    \/ Ord(ch) >= Ord("a") /\ Ord(ch) <= Ord("z")
    \/ Ord(ch) >= Ord("A") /\ Ord(ch) <= Ord("Z")
    \/ ch = "_"

(***************************************************************************)
(* Sizes, alignments and limits.                                           *)
(***************************************************************************)
FLD_MAX_ARRAY_ITEMS == 128
FLD_MAX_DIGITS == 21
FLD_MAX_PATH_LENGTH == 128
PathDepth == 32     \* fld_object *parents[32] of fld_iter_get_path
NumStrSize == FLD_MAX_DIGITS + 3

SizeofToken == 32
AlignofToken == 8
SizeofValue == 24
AlignofValue == 8
SizeofObject == 56
AlignofObject == 8
SizeofStringView == 16
AlignofStringView == 8
SizeofInt == 4
AlignofInt == 4
SizeofFloat == 4
AlignofFloat == 4
SizeofBool == 1
AlignofBool == 1
AlignofChar == 1
EstimateOverhead == 1024
EstimateDivisor == 4

(***************************************************************************)
(* The bump allocator.                                                     *)
(***************************************************************************)
RECURSIVE AndNot(_, _)
\* x & ~m on naturals, bit by bit
AndNot(x, m) ==
    IF x = 0 THEN 0
    ELSE (IF m % 2 = 1 THEN 0 ELSE x % 2) + (2 * AndNot(x \div 2, m \div 2))

\* rounds down instead of up
AlignDown(addr, align) == AndNot(addr, align - 1)

_align_up(addr, align) == AndNot(addr + (align - 1), align - 1)

_bump_init(memory, size) ==
    [start |-> memory, current |-> memory, end |-> memory + size]

\* [alloc |-> the allocator afterwards, ptr |-> the pointer returned]
_bump_alloc(alloc, size, align) ==
    LET aligned == _align_up(alloc.current, align)
        new_current == aligned + size
    IN  IF new_current > alloc.end
        THEN [alloc |-> alloc, ptr |-> NULL]
        ELSE [alloc |-> [alloc EXCEPT !.current = new_current], ptr |-> aligned]

_bump_alloc_raw(alloc, size) ==
    LET new_current == alloc.current + size
    IN  IF new_current > alloc.end
        THEN [alloc |-> alloc, ptr |-> NULL]
        ELSE [alloc |-> [alloc EXCEPT !.current = new_current], ptr |-> alloc.current]

_estimate_memory_needed(source) ==
    (Len(source) \div EstimateDivisor) * (SizeofValue + SizeofObject) + EstimateOverhead

(***************************************************************************)
(* Number conversion.                                                      *)
(***************************************************************************)
Half == 65536
HalfTop == 32768

\* (res * 10 + d) in 32-bit two's complement, computed on 16-bit halves
MulAdd10(res, d) ==
    LET lo  == res % Half
        hi  == (res \div Half) % Half
        lo2 == lo * 10 + d
        hi2 == (hi * 10 + (lo2 \div Half)) % Half
    IN  (IF hi2 >= HalfTop THEN hi2 - Half ELSE hi2) * Half + (lo2 % Half)

MinInt == -2147483647 - 1

\* the sign is not applied
Unsigned(res, sign) == res

\* res * sign in 32-bit two's complement, sign being 1 or -1
MulSign(res, sign) == IF sign = 1 THEN res ELSE IF res = MinInt THEN MinInt ELSE 0 - res

Digit(ch) == Ord(ch) - Ord("0")

RECURSIVE AtoiLoop(_, _, _)
AtoiLoop(str, i, res) ==
    IF i > Len(str) THEN res ELSE AtoiLoop(str, i + 1, MulAdd10(res, Digit(str[i])))

_fast_atoi(str) == AtoiLoop(str, 2, Digit(str[1]))

RECURSIVE StripLeft(_)
StripLeft(ds) == IF ds # <<>> /\ Head(ds) = 0 THEN StripLeft(Tail(ds)) ELSE ds

RECURSIVE StripRight(_)
StripRight(ds) ==
    IF ds # <<>> /\ ds[Len(ds)] = 0 THEN StripRight(SubSeq(ds, 1, Len(ds) - 1)) ELSE ds

\* the decimal a digit string denotes: integer digits and fraction digits
Decimal(ip, fp, neg) == [ip |-> StripLeft(ip), fp |-> StripRight(fp), neg |-> neg]

DotAt(str) == IF \E i \in 1..Len(str) : str[i] = "." 
              THEN CHOOSE i \in 1..Len(str) : str[i] = "." /\ \A j \in 1..(i - 1) : str[j] # "."
              ELSE Len(str) + 1

\* the value of the digits before and after the '.', times sign
_fast_atof(str, sign) ==
    LET dot == DotAt(str)
    IN  Decimal([i \in 1..(dot - 1) |-> Digit(str[i])],
                [i \in 1..(Len(str) - dot) |-> Digit(str[dot + i])],
                sign = -1)

RECURSIVE IntDigits(_)
IntDigits(n) == IF n = 0 THEN <<>> ELSE Append(IntDigits(n \div 10), n % 10)

\* (float)n and (double)n for an int n
IntToFloat(n) ==
    IF n = MinInt THEN [ip |-> <<2, 1, 4, 7, 4, 8, 3, 6, 4, 8>>, fp |-> <<>>, neg |-> TRUE]
    ELSE [ip |-> IntDigits(IF n < 0 THEN 0 - n ELSE n), fp |-> <<>>, neg |-> n < 0]

(***************************************************************************)
(* Tokens, errors, and reads and writes through a null pointer.            *)
(*                                                                         *)
(* A context c is the memory an operation works on:                        *)
(*   c.p the fld_parser struct, c.text, c.objs, c.arrs the arena contents, *)
(*   c.nullpage what a null read yields ("unread" before the first one),   *)
(*   c.halt "no", or how the process stopped: "trap" or "hang",            *)
(*   c.smashed whether a write went past the end of num_str,               *)
(*   c.exhausted whether an arena allocation returned null,                *)
(*   c.written whether the caller's memory was written,                    *)
(*   c.first the first error stored since fld_parse was entered.           *)
(* A null dereference is undefined: the process traps, or the access goes  *)
(* to address 0 and reads a token of whatever type is stored there.  A     *)
(* store past the end of num_str is undefined too: the process traps or    *)
(* goes on.  g is the outcome the environment picks: that of the first     *)
(* null access, and with "trap" the end of the process at such a store.    *)
(***************************************************************************)
NullTok == [type |-> "NULL"]
IsNull(tok) == tok.type = "NULL"

NullOutcomes == {"trap", "TOKEN_KEY", "TOKEN_EOF", "TOKEN_ERROR"}

ZeroView == [start |-> NULL, length |-> 0]

GarbageTok(type) ==
    [type |-> type, line |-> 0, column |-> 0, string |-> ZeroView, integer |-> 0]

NullAccess(c, g) ==
    IF c.halt # "no" THEN c
    ELSE LET np == IF c.nullpage = "unread" THEN g ELSE c.nullpage
         IN  [c EXCEPT !.nullpage = np, !.halt = IF np = "trap" THEN "trap" ELSE "no"]

\* parser->current->..., as the read sees it
Cur(c) == IF IsNull(c.p.current) THEN GarbageTok(c.nullpage) ELSE c.p.current

ReadCur(c, g) == IF IsNull(c.p.current) THEN NullAccess(c, g) ELSE c

Err(code, line, column) == [code |-> code, line |-> line, column |-> column]

\* an allocation returned null
Exhaust(c) == [c EXCEPT !.exhausted = TRUE]

\* parser->last_error = err, whatever is stored there
StoreError(c, err) ==
    [c EXCEPT !.p.last_error = err,
              !.first = IF @.code = "FLD_ERROR_NONE" THEN err ELSE @]

\* [c |-> context afterwards, tok |-> the token or NullTok]
_token_create(c, type, line, column) ==
    LET a == _bump_alloc(c.p.allocator, SizeofToken, AlignofToken)
    IN  IF a.ptr = NULL
        THEN [c   |-> StoreError(Exhaust(c), Err("FLD_ERROR_OUT_OF_MEMORY", line, column)),
              tok |-> NullTok]
        ELSE [c   |-> [c EXCEPT !.p.allocator = a.alloc],
              tok |-> [type |-> type, line |-> line, column |-> column]]

\* token->value.<field> = val
TokenSet(r, field, val, g) ==
    IF IsNull(r.tok) THEN [c |-> NullAccess(r.c, g), tok |-> NullTok]
    ELSE [c |-> r.c, tok |-> [f \in DOMAIN r.tok \cup {field} |->
                                 IF f = field THEN val ELSE r.tok[f]]]

\* the error is not recorded
SilentError(c, error_code, g) == c

_parser_error(c, error_code, g) ==
    IF c.halt # "no" \/ c.p.last_error.code # "FLD_ERROR_NONE" THEN c
    ELSE LET c1 == ReadCur(c, g)
         IN  IF c1.halt # "no" THEN c1
             ELSE StoreError(c1, Err(error_code, Cur(c1).line, Cur(c1).column))

(***************************************************************************)
(* The lexer.                                                              *)
(***************************************************************************)
\* the byte at an address of the source copy
CharAt(c, addr) ==
    LET i == addr - c.p.source + 1
    IN  IF i >= 1 /\ i <= Len(c.text) THEN c.text[i] ELSE NUL

_lexer_peek(c) == CharAt(c, c.p.lexer.current)

_lexer_is_at_end(c) == _lexer_peek(c) = NUL

_lexer_peek_next(c) ==
    IF _lexer_is_at_end(c) THEN NUL ELSE CharAt(c, c.p.lexer.current + 1)

_lexer_advance(c) ==
    [c EXCEPT !.p.lexer.column = @ + 1, !.p.lexer.current = @ + 1]

\* lexer->line++; lexer->column = 1;
NewLine(c) == [c EXCEPT !.p.lexer.line = @ + 1, !.p.lexer.column = 1]

RECURSIVE StringBody(_)
StringBody(c) ==
    IF _lexer_peek(c) # "\"" /\ ~_lexer_is_at_end(c)
    THEN StringBody(_lexer_advance(IF _lexer_peek(c) = "\n" THEN NewLine(c) ELSE c))
    ELSE c

_lexer_handle_string(c, g) ==
    LET c1 == StringBody(c)
    IN  IF _lexer_is_at_end(c1)
        THEN _token_create(c1, "TOKEN_ERROR", c1.p.lexer.line, c1.p.lexer.column)
        ELSE LET c2 == _lexer_advance(c1)
                 L  == c2.p.lexer
                 r  == _token_create(c2, "TOKEN_STRING", L.line, L.column)
             IN  TokenSet(r, "string",
                          [start |-> L.start + 1, length |-> (L.current - L.start) - 2], g)

UInt8Range == 256

\* num_str[idx] = ...: a store past the end of the array smashes the stack,
\* which the process survives or not
StoreNum(c, idx, g) ==
    IF idx >= NumStrSize /\ c.halt = "no"
    THEN [c EXCEPT !.smashed = TRUE, !.halt = IF g = "trap" THEN "trap" ELSE "no"]
    ELSE c

RECURSIVE DigitRun(_, _, _, _, _)
\* while (_is_digit(peek) [&& digit_count < FLD_MAX_DIGITS]) *num_ptr++ = advance
DigitRun(c, buf, digit_count, limited, g) ==
    IF _is_digit(_lexer_peek(c)) /\ (~limited \/ digit_count < FLD_MAX_DIGITS)
    THEN DigitRun(_lexer_advance(StoreNum(c, Len(buf), g)), Append(buf, _lexer_peek(c)),
                  (digit_count + 1) % UInt8Range, limited, g)
    ELSE [c |-> c, buf |-> buf, digit_count |-> digit_count]

\* the over-long literal: the error is stored without looking at what is latched
NumberTooLong(c) ==
    LET L == c.p.lexer
    IN  _token_create(StoreError(c, Err("FLD_ERROR_INVALID_NUMBER", L.line, L.column)),
                      "TOKEN_ERROR", L.line, L.column)

_lexer_handle_number(c, is_negative, g) ==
    LET c0   == IF _lexer_peek(c) \in {"+", "-"} THEN _lexer_advance(c) ELSE c
        sign == 1 - (2 * (IF is_negative THEN 1 ELSE 0))
        d1   == DigitRun(c0, <<>>, 0, FALSE, g)
    IN  IF _lexer_peek(d1.c) = "." /\ _is_digit(_lexer_peek_next(d1.c))
        THEN LET cd == _lexer_advance(StoreNum(d1.c, Len(d1.buf), g))
                 d2 == DigitRun(cd, Append(d1.buf, "."), d1.digit_count, TRUE, g)
             IN  IF _is_digit(_lexer_peek(d2.c)) THEN NumberTooLong(d2.c)
                 ELSE LET cz == StoreNum(d2.c, Len(d2.buf), g)
                          r  == _token_create(cz, "TOKEN_FLOAT", cz.p.lexer.line, cz.p.lexer.column)
                      IN  TokenSet(r, "float_val", _fast_atof(d2.buf, sign), g)
        ELSE IF _is_digit(_lexer_peek(d1.c)) THEN NumberTooLong(d1.c)
             ELSE LET cz == StoreNum(d1.c, Len(d1.buf), g)
                      r  == _token_create(cz, "TOKEN_INT", cz.p.lexer.line, cz.p.lexer.column)
                  IN  TokenSet(r, "integer", MulSign(_fast_atoi(d1.buf), sign), g)

RECURSIVE IdentRun(_)
IdentRun(c) ==
    IF _is_alpha(_lexer_peek(c)) \/ _is_digit(_lexer_peek(c))
    THEN IdentRun(_lexer_advance(c)) ELSE c

\* strncmp(lexer->start, word, Len(word)) == 0
StartsWith(c, word) ==
    \A i \in 1..Len(word) : CharAt(c, c.p.lexer.start + i - 1) = word[i]

_lexer_handle_keyword(c, g) ==
    LET c1     == IdentRun(c)
        L      == c1.p.lexer
        length == L.current - L.start
        fourth == CharAt(c1, L.start + 3)
    IN  IF length = 4 /\ StartsWith(c1, <<"t", "r", "u", "e">>)
        THEN TokenSet(_token_create(c1, "TOKEN_BOOL", L.line, L.column), "boolean", TRUE, g)
        ELSE IF length = 4 /\ StartsWith(c1, <<"v", "e", "c">>)
        THEN IF Ord(fourth) > Ord("4") \/ Ord(fourth) < Ord("2")
             THEN _token_create(c1, "TOKEN_ERROR", L.line, L.column)
             ELSE TokenSet(_token_create(c1, "TOKEN_VEC", L.line, L.column),
                           "integer", Ord(fourth) - Ord("0"), g)
        ELSE IF length = 5 /\ StartsWith(c1, <<"f", "a", "l", "s", "e">>)
        THEN TokenSet(_token_create(c1, "TOKEN_BOOL", L.line, L.column), "boolean", FALSE, g)
        ELSE TokenSet(_token_create(c1, "TOKEN_KEY", L.line, L.column),
                      "string", [start |-> L.start, length |-> length], g)

RECURSIVE SkipWhitespace(_)
SkipWhitespace(c) ==
    IF _lexer_is_at_end(c) THEN c
    ELSE IF _lexer_peek(c) \in {" ", "\r", "\t"} THEN SkipWhitespace(_lexer_advance(c))
    ELSE IF _lexer_peek(c) = "\n" THEN SkipWhitespace(_lexer_advance(NewLine(c)))
    ELSE c

RECURSIVE ToEndOfInput(_)
\* a line comment that does not stop at the newline
ToEndOfInput(c) == IF ~_lexer_is_at_end(c) THEN ToEndOfInput(_lexer_advance(c)) ELSE c

RECURSIVE LineComment(_)
LineComment(c) ==
    IF _lexer_peek(c) # "\n" /\ ~_lexer_is_at_end(c) THEN LineComment(_lexer_advance(c)) ELSE c

RECURSIVE BlockComment(_)
\* [c, closed]: closed is FALSE when the input ended inside the comment
BlockComment(c) ==
    IF _lexer_is_at_end(c) THEN [c |-> c, closed |-> FALSE]
    ELSE IF _lexer_peek(c) = "*" /\ _lexer_peek_next(c) = "/"
    THEN [c |-> _lexer_advance(_lexer_advance(c)), closed |-> TRUE]
    ELSE BlockComment(_lexer_advance(IF _lexer_peek(c) = "\n" THEN NewLine(c) ELSE c))

PunctType(ch) ==
    CASE ch = "=" -> "TOKEN_EQUALS"
      [] ch = "{" -> "TOKEN_BRACE_LEFT"
      [] ch = "}" -> "TOKEN_BRACE_RIGHT"
      [] ch = "[" -> "TOKEN_BRACKET_LEFT"
      [] ch = "]" -> "TOKEN_BRACKET_RIGHT"
      [] ch = "(" -> "TOKEN_PAREN_LEFT"
      [] ch = ")" -> "TOKEN_PAREN_RIGHT"
      [] ch = ";" -> "TOKEN_SEMICOLON"
      [] ch = "," -> "TOKEN_COMMA"
      [] OTHER    -> "TOKEN_ERROR"

\* _lexer_scan_token after the comments: ch is the character just consumed
ScanLiteral(c, ch, g) ==
    IF ch = "\"" THEN _lexer_handle_string(c, g)
    ELSE IF _is_digit(ch) \/ (ch = "-" /\ _is_digit(_lexer_peek(c)))
    THEN LET cb == [c EXCEPT !.p.lexer.current = @ - 1]
         IN  _lexer_handle_number(cb, _lexer_peek(cb) = "-", g)
    ELSE IF _is_alpha(ch)
    THEN _lexer_handle_keyword([c EXCEPT !.p.lexer.current = @ - 1], g)
    ELSE _token_create(c, PunctType(ch), c.p.lexer.line, c.p.lexer.column - 1)

RECURSIVE _lexer_scan_token(_, _)
_lexer_scan_token(c, g) ==
    LET c1 == SkipWhitespace(c)
        c2 == [c1 EXCEPT !.p.lexer.start = c1.p.lexer.current]
        ch == _lexer_peek(c2)
        c3 == _lexer_advance(c2)
    IN  IF _lexer_is_at_end(c2)
        THEN _token_create(c2, "TOKEN_EOF", c2.p.lexer.line, c2.p.lexer.column)
        ELSE IF ch = "/" /\ _lexer_peek(c3) = "/"
        THEN _lexer_scan_token(LineComment(c3), g)
        ELSE IF ch = "/" /\ _lexer_peek(c3) = "*"
        THEN LET b == BlockComment(_lexer_advance(c3))
             IN  IF b.closed THEN _lexer_scan_token(b.c, g) ELSE ScanLiteral(b.c, ch, g)
        ELSE ScanLiteral(c3, ch, g)

(***************************************************************************)
(* The parser's token helpers.                                             *)
(***************************************************************************)
RECURSIVE AdvanceLoop(_, _)
\* scan until a token that is not an error token; with the arena exhausted
\* and an error type read at address 0 the loop never ends
AdvanceLoop(c, g) ==
    LET r  == _lexer_scan_token(c, g)
        c1 == ReadCur([r.c EXCEPT !.p.current = r.tok], g)
    IN  IF c1.halt # "no" THEN c1
        ELSE IF Cur(c1).type # "TOKEN_ERROR" THEN c1
        ELSE LET c2 == _parser_error(c1, "FLD_ERROR_UNEXPECTED_TOKEN", g)
             IN  IF c2 = c THEN [c2 EXCEPT !.halt = "hang"] ELSE AdvanceLoop(c2, g)

_parser_advance(c, g) ==
    IF c.halt # "no" THEN c
    ELSE AdvanceLoop([c EXCEPT !.p.previous = c.p.current], g)

\* [c, ok]
_parser_match(c, type, g) ==
    LET c1 == ReadCur(c, g)
    IN  IF c1.halt # "no" \/ Cur(c1).type # type THEN [c |-> c1, ok |-> FALSE]
        ELSE [c |-> _parser_advance(c1, g), ok |-> TRUE]

_parser_consume(c, type, error_code, g) ==
    LET c1 == ReadCur(c, g)
    IN  IF c1.halt # "no" THEN c1
        ELSE IF Cur(c1).type = type THEN _parser_advance(c1, g)
        ELSE _parser_error(c1, error_code, g)

\* [c, ok]
_parser_expect(c, type, error_code, g) ==
    LET m == _parser_match(c, type, g)
    IN  IF m.ok THEN m ELSE [c |-> _parser_error(m.c, error_code, g), ok |-> FALSE]

(***************************************************************************)
(* Values and the parse functions.                                         *)
(*                                                                         *)
(* Each parse function is cut where it calls another parse function: a     *)
(* block takes the context c, the frame f of the function (its parameters  *)
(* and locals), the value rv the last callee returned and the null-read    *)
(* outcome g, and says how it ends: it goes on to another block of the     *)
(* same function, calls a function, becomes one (return f(...)), or        *)
(* returns.  A fld_value* is the value itself, NullValue for NULL; a       *)
(* fld_object* is the address of the object.                               *)
(***************************************************************************)
fld_value_type ==
    <<"FLD_VALUE_EMPTY", "FLD_VALUE_STRING", "FLD_VALUE_INT", "FLD_VALUE_FLOAT",
      "FLD_VALUE_BOOL", "FLD_VALUE_ARRAY", "FLD_VALUE_VEC2", "FLD_VALUE_VEC3",
      "FLD_VALUE_VEC4", "FLD_VALUE_OBJECT">>

\* the enumerator's number
TypeNum(t) == (CHOOSE i \in 1..Len(fld_value_type) : fld_value_type[i] = t) - 1

NullValue == [type |-> "NULL"]
\* memset(value, 0, sizeof(fld_value))
ZeroValue == [type |-> "FLD_VALUE_EMPTY"]

Goto(c, f)         == [c |-> c, op |-> "goto", frame |-> f]
Call(c, f, callee) == [c |-> c, op |-> "call", frame |-> f, callee |-> callee]
Become(c, callee)  == [c |-> c, op |-> "become", callee |-> callee]
Return(c, rv)      == [c |-> c, op |-> "ret", rv |-> rv]

Failed(c) == c.p.last_error.code # "FLD_ERROR_NONE"

AllocValue(c) == _bump_alloc(c.p.allocator, SizeofValue, AlignofValue)

_get_type_size(type) ==
    CASE type = "FLD_VALUE_STRING" -> SizeofStringView
      [] type = "FLD_VALUE_INT"    -> SizeofInt
      [] type = "FLD_VALUE_FLOAT"  -> SizeofFloat
      [] type = "FLD_VALUE_BOOL"   -> SizeofBool
      [] OTHER                     -> SizeofValue

_get_type_alignment(type) ==
    CASE type = "FLD_VALUE_STRING" -> AlignofStringView
      [] type = "FLD_VALUE_INT"    -> AlignofInt
      [] type = "FLD_VALUE_FLOAT"  -> AlignofFloat
      [] type = "FLD_VALUE_BOOL"   -> AlignofBool
      [] OTHER                     -> AlignofValue

\* the parent is dropped
OrphanFrame(parent) == [fn |-> "_parse_field", pc |-> "field_begin", parent |-> NULL]

FieldFrame(parent)  == [fn |-> "_parse_field", pc |-> "field_begin", parent |-> parent]
ValueFrame(parent)  == [fn |-> "_parse_value", pc |-> "value", parent |-> parent]
ObjectFrame(parent) == [fn |-> "_parse_object", pc |-> "object_begin", parent |-> parent]
ArrayFrame(parent)  == [fn |-> "_parse_array", pc |-> "array_begin", parent |-> parent]
VecFrame(parent)    == [fn |-> "_parse_vec", pc |-> "vec", parent |-> parent]

\* _parse_field up to its call of _parse_value
_parse_field(c, f, rv, g) ==
    LET a == _bump_alloc(c.p.allocator, SizeofObject, AlignofObject)
    IN  IF a.ptr = NULL
        THEN Return(StoreError(Exhaust(c), [c.p.last_error EXCEPT
                                                   !.code = "FLD_ERROR_OUT_OF_MEMORY"]),
                    NULL)
        ELSE LET c1 == ReadCur([c EXCEPT !.p.allocator = a.alloc], g)
                 c2 == [c1 EXCEPT !.objs = (a.ptr :>
                            [key |-> Cur(c1).string, value |-> ZeroValue,
                             next |-> NULL, parent |-> f.parent]) @@ @]
                 c3 == _parser_consume(_parser_advance(c2, g), "TOKEN_EQUALS",
                                       "FLD_ERROR_UNEXPECTED_TOKEN", g)
             IN  IF Failed(c3) THEN Return(c3, NULL)
                 ELSE Call(c3, [f EXCEPT !.pc = "field_value"] @@ [obj |-> a.ptr],
                           ValueFrame(a.ptr))

\* _parse_field from the return of _parse_value
FieldValue(c, f, rv, g) ==
    IF IsNull(rv) THEN Return(c, NULL)
    ELSE LET c1 == [c EXCEPT !.objs[f.obj].value = rv]
             c2 == _parser_consume(c1, "TOKEN_SEMICOLON", "FLD_ERROR_UNEXPECTED_TOKEN", g)
         IN  IF Failed(c2) THEN Return(c2, NULL) ELSE Return(c2, f.obj)

\* _parse_value
_parse_value(c, f, rv, g) ==
    LET c0  == ReadCur(c, g)
        tok == Cur(c0)
        a   == AllocValue(c0)
        c1  == [c0 EXCEPT !.p.allocator = a.alloc]
    IN  IF c0.halt # "no" THEN Return(c0, NullValue)
        ELSE IF tok.type = "TOKEN_BRACE_LEFT" THEN Become(c0, ObjectFrame(f.parent))
        ELSE IF tok.type = "TOKEN_BRACKET_LEFT" THEN Become(c0, ArrayFrame(f.parent))
        ELSE IF a.ptr = NULL
        THEN Return(_parser_error(Exhaust(c0), "FLD_ERROR_OUT_OF_MEMORY", g), NullValue)
        ELSE CASE tok.type = "TOKEN_STRING" ->
                    IF tok.string.length > 0 /\ tok.string.start # NULL
                    THEN Return(_parser_advance(c1, g),
                                [type |-> "FLD_VALUE_STRING", string |-> tok.string])
                    ELSE Return(_parser_error(c1, "FLD_ERROR_UNEXPECTED_TOKEN", g), NullValue)
               [] tok.type = "TOKEN_INT" ->
                    Return(_parser_advance(c1, g),
                           [type |-> "FLD_VALUE_INT", integer |-> tok.integer])
               [] tok.type = "TOKEN_FLOAT" ->
                    Return(_parser_advance(c1, g),
                           [type |-> "FLD_VALUE_FLOAT", float_val |-> tok.float_val])
               [] tok.type = "TOKEN_BOOL" ->
                    Return(_parser_advance(c1, g),
                           [type |-> "FLD_VALUE_BOOL", boolean |-> tok.boolean])
               [] tok.type = "TOKEN_VEC" -> Become(c1, VecFrame(f.parent))
               [] OTHER ->
                    Return(_parser_error(c1, "FLD_ERROR_UNEXPECTED_TOKEN", g), NullValue)

\* every vector is tagged as a vec2
Vec2Always(vec_size) == "FLD_VALUE_VEC2"

\* (fld_value_type)(FLD_VALUE_VEC2 + vec_size - 2)
VecType(vec_size) == fld_value_type[TypeNum("FLD_VALUE_VEC2") + vec_size - 2 + 1]

RECURSIVE VecComponents(_, _, _, _, _)
\* the component loop of _parse_vec: [c, ok, components]
VecComponents(c, i, vec_size, components, g) ==
    IF i >= vec_size THEN [c |-> c, ok |-> TRUE, components |-> components]
    ELSE LET m   == IF i > 0
                    THEN _parser_expect(c, "TOKEN_COMMA", "FLD_ERROR_UNEXPECTED_TOKEN", g)
                    ELSE [c |-> c, ok |-> TRUE]
             c1  == ReadCur(m.c, g)
             tok == Cur(c1)
         IN  IF ~m.ok \/ c1.halt # "no" THEN [c |-> c1, ok |-> FALSE, components |-> components]
             ELSE IF tok.type # "TOKEN_INT" /\ tok.type # "TOKEN_FLOAT"
             THEN [c |-> _parser_error(c1, "FLD_ERROR_UNEXPECTED_TOKEN", g), ok |-> FALSE,
                   components |-> components]
             ELSE VecComponents(_parser_advance(c1, g), i + 1, vec_size,
                      Append(components, IF tok.type = "TOKEN_INT"
                                         THEN IntToFloat(tok.integer) ELSE tok.float_val), g)

\* _parse_vec: a failed allocation is reported but the null value is then used
_parse_vec(c, f, rv, g) ==
    LET c0       == ReadCur(c, g)
        vec_size == Cur(c0).integer
        m        == _parser_expect(_parser_advance(c0, g), "TOKEN_PAREN_LEFT",
                                   "FLD_ERROR_UNEXPECTED_TOKEN", g)
        a        == AllocValue(m.c)
        c1       == IF a.ptr = NULL
                    THEN NullAccess(_parser_error(Exhaust(m.c), "FLD_ERROR_OUT_OF_MEMORY", g),
                                    g)
                    ELSE [m.c EXCEPT !.p.allocator = a.alloc]
        v        == VecComponents(c1, 0, vec_size, <<>>, g)
        e        == _parser_expect(v.c, "TOKEN_PAREN_RIGHT", "FLD_ERROR_UNEXPECTED_TOKEN", g)
    IN  IF ~m.ok THEN Return(m.c, NullValue)
        ELSE IF ~v.ok THEN Return(v.c, NullValue)
        ELSE IF ~e.ok \/ a.ptr = NULL THEN Return(e.c, NullValue)
        ELSE Return(e.c, [type |-> VecType(vec_size),
                          vec  |-> v.components])

\* the end of _parse_object: fields is what _parse_object_fields returned
ObjectEnd(c, fields) ==
    IF Failed(c) THEN Return(c, NullValue)
    ELSE Return(c, [type |-> "FLD_VALUE_OBJECT", object |-> fields])

\* _parse_object and _parse_object_fields up to the field loop
_parse_object(c, f, rv, g) ==
    LET a  == AllocValue(c)
        c1 == _parser_advance([c EXCEPT !.p.allocator = a.alloc], g)
        m  == _parser_match(c1, "TOKEN_BRACE_RIGHT", g)
    IN  IF a.ptr = NULL
        THEN Return(_parser_error(Exhaust(c), "FLD_ERROR_OUT_OF_MEMORY", g), NullValue)
        ELSE IF m.ok THEN ObjectEnd(m.c, NULL)
        ELSE Goto(m.c, [f EXCEPT !.pc = "object_loop"]
                          @@ [first_field |-> NULL, last_field |-> NULL])

\* the head of the field loop of _parse_object_fields
_parse_object_fields(c, f, rv, g) ==
    LET c1 == ReadCur(c, g)
    IN  IF c1.halt # "no" THEN Return(c1, NullValue)
        ELSE IF Cur(c1).type # "TOKEN_KEY"
        THEN ObjectEnd(_parser_error(c1, "FLD_ERROR_UNEXPECTED_TOKEN", g), NULL)
        ELSE Call(c1, [f EXCEPT !.pc = "object_link"], FieldFrame(f.parent))

\* the field loop from the return of _parse_field
ObjectLink(c, f, rv, g) ==
    IF rv = NULL THEN ObjectEnd(c, NULL)
    ELSE LET c1    == IF f.first_field = NULL THEN c
                      ELSE [c EXCEPT !.objs[f.last_field].next = rv]
             first == IF f.first_field = NULL THEN rv ELSE f.first_field
             c2    == ReadCur(c1, g)
             e     == _parser_expect(c2, "TOKEN_BRACE_RIGHT", "FLD_ERROR_UNEXPECTED_TOKEN", g)
         IN  IF c2.halt # "no" THEN Return(c2, NullValue)
             ELSE IF Cur(c2).type # "TOKEN_BRACE_RIGHT"
             THEN Goto(c2, [f EXCEPT !.first_field = first, !.last_field = rv,
                                     !.pc = "object_loop"])
             ELSE IF ~e.ok THEN ObjectEnd(e.c, NULL)
             ELSE ObjectEnd([e.c EXCEPT !.objs[rv].next = NULL], first)

\* the limit is checked one item late
LaxLimit(count) == count > FLD_MAX_ARRAY_ITEMS

\* count >= FLD_MAX_ARRAY_ITEMS
AtItemLimit(count) == count >= FLD_MAX_ARRAY_ITEMS

\* _parse_array up to the parse of the first element
_parse_array(c, f, rv, g) ==
    LET c1 == _parser_advance(c, g)
        m  == _parser_match(c1, "TOKEN_BRACKET_RIGHT", g)
        a  == AllocValue(m.c)
    IN  IF ~m.ok
        THEN Call(m.c, [f EXCEPT !.pc = "array_first"]
                          @@ [start_pos |-> c.p.lexer.current, start_line |-> c.p.lexer.line,
                              start_column |-> c.p.lexer.column],
                  ValueFrame(f.parent))
        ELSE IF a.ptr = NULL
        THEN Return(_parser_error(Exhaust(m.c), "FLD_ERROR_OUT_OF_MEMORY", g), NullValue)
        ELSE Return([m.c EXCEPT !.p.allocator = a.alloc],
                    [type |-> "FLD_VALUE_ARRAY",
                     array |-> [type |-> "FLD_VALUE_EMPTY", count |-> 0, items |-> NULL]])

\* _parse_array from the return of the first element to the counting loop
ArrayFirst(c, f, rv, g) ==
    IF IsNull(rv) THEN Return(c, NullValue)
    ELSE IF rv.type = "FLD_VALUE_ARRAY" \/ rv.type = "FLD_VALUE_OBJECT"
    THEN Return(_parser_error(c, "FLD_ERROR_ARRAY_NOT_SUPPORTED_TYPE", g), NullValue)
    ELSE Goto(c, [f EXCEPT !.pc = "array_count"] @@ [first_type |-> rv.type, count |-> 1])

\* a rewind that leaves the column where the first pass ended
ColumnKept(c, f) ==
    [c EXCEPT !.p.lexer.current = f.start_pos, !.p.lexer.line = f.start_line]

\* restore lexer state
Rewound(c, f) ==
    [c EXCEPT !.p.lexer.current = f.start_pos,
              !.p.lexer.line = f.start_line,
              !.p.lexer.column = f.start_column]

\* the rest of the first pass, the rewind and the allocation of the array
\* and of its item storage, to the parse of item 0; counted is history: the
\* lexer and the current token as the first pass left them
ArrayRewind(c, f, g) ==
    LET e    == _parser_expect(c, "TOKEN_BRACKET_RIGHT", "FLD_ERROR_UNEXPECTED_TOKEN", g)
        r    == _lexer_scan_token(Rewound(e.c, f), g)
        c1   == [r.c EXCEPT !.p.current = r.tok]
        a    == AllocValue(c1)
        c2   == [c1 EXCEPT !.p.allocator = a.alloc]
        it   == _bump_alloc(c2.p.allocator, _get_type_size(f.first_type) * f.count,
                            _get_type_alignment(f.first_type))
    IN  IF ~e.ok THEN Return(e.c, NullValue)
        ELSE IF r.c.halt # "no" THEN Return(r.c, NullValue)
        ELSE IF a.ptr = NULL
        THEN Return(_parser_error(Exhaust(c1), "FLD_ERROR_OUT_OF_MEMORY", g), NullValue)
        ELSE IF it.ptr = NULL
        THEN Return(_parser_error(Exhaust(c2), "FLD_ERROR_OUT_OF_MEMORY", g), NullValue)
        ELSE Call([c2 EXCEPT !.p.allocator = it.alloc, !.arrs = (it.ptr :> <<>>) @@ @],
                  [f EXCEPT !.pc = "array_item"]
                     @@ [array |-> [type |-> f.first_type, count |-> f.count,
                                    items |-> it.ptr],
                         i |-> 0,
                         counted |-> [lexer |-> e.c.p.lexer, current |-> e.c.p.current]],
                  ValueFrame(f.parent))

\* one test of the counting loop of _parse_array, and its body or what
\* follows the loop
ArrayCount(c, f, rv, g) ==
    LET m == _parser_match(c, "TOKEN_COMMA", g)
    IN  IF ~m.ok THEN ArrayRewind(m.c, f, g)
        ELSE IF AtItemLimit(f.count)
        THEN Return(_parser_error(m.c, "FLD_ERROR_ARRAY_TOO_MANY_ITEMS", g), NullValue)
        ELSE Goto(_parser_advance(m.c, g), [f EXCEPT !.count = @ + 1])

\* what the second pass stores for an element
ItemOf(value) ==
    CASE value.type = "FLD_VALUE_STRING" -> value.string
      [] value.type = "FLD_VALUE_INT"    -> value.integer
      [] value.type = "FLD_VALUE_FLOAT"  -> value.float_val
      [] value.type = "FLD_VALUE_BOOL"   -> value.boolean

\* the second pass of _parse_array from the return of _parse_value
ArrayItem(c, f, rv, g) ==
    LET c1 == [c EXCEPT !.arrs[f.array.items] = Append(@, ItemOf(rv))]
        c2 == IF f.i < f.array.count - 1
              THEN _parser_consume(c1, "TOKEN_COMMA", "FLD_ERROR_UNEXPECTED_TOKEN", g)
              ELSE c1
    IN  IF IsNull(rv) THEN Return(c, NullValue)
        ELSE IF rv.type # f.array.type
                \/ rv.type \notin {"FLD_VALUE_STRING", "FLD_VALUE_INT",
                                   "FLD_VALUE_FLOAT", "FLD_VALUE_BOOL"}
        THEN Return(_parser_error(c, "FLD_ERROR_ARRAY_TYPE_MISMATCH", g), NullValue)
        ELSE IF f.i + 1 < f.array.count
        THEN Call(c2, [f EXCEPT !.i = @ + 1], ValueFrame(f.parent))
        ELSE Return(_parser_consume(c2, "TOKEN_BRACKET_RIGHT",
                                    "FLD_ERROR_UNEXPECTED_TOKEN", g),
                    [type |-> "FLD_VALUE_ARRAY", array |-> f.array])

\* the position is left as it was
StaleError == Err("FLD_ERROR_NONE", 0, 0)

NoError == Err("FLD_ERROR_NONE", 1, 1)

\* fld_parse up to its loop over the top-level fields
\* the set-up that leaves the root of the former call
KeepRoot(c) == [c EXCEPT !.p.last_error = NoError, !.first = NoError, !.exhausted = FALSE]

\* the set-up of the parser at the head of fld_parse
SetUp(c) ==
    [c EXCEPT !.p.root = NULL, !.p.last_error = NoError, !.first = NoError,
              !.exhausted = FALSE]

SourceAddr == 1024  \* address of the caller's source string

\* a parser that reads the caller's string where it lies
SourceShared(c, a, source) ==
    [c EXCEPT !.p.allocator = a.alloc, !.p.source = SourceAddr,
              !.text = source, !.written = TRUE]

\* Copy source text so it does not get invalidated
SourceCopy(c, a, source) ==
    [c EXCEPT !.p.allocator = a.alloc, !.p.source = a.ptr,
              !.text = source, !.written = TRUE]

fld_parse(c, source, memory, size, g) ==
    LET c0 == SetUp(c)
        a  == _bump_alloc(_bump_init(memory, size), Len(source) + 1, AlignofChar)
        cp == SourceCopy(c0, a, source)
        c1 == [cp EXCEPT !.p.lexer = [start |-> cp.p.source, current |-> cp.p.source,
                                      line |-> 1, column |-> 1]]
        r  == _lexer_scan_token(c1, g)
    IN  IF size < _estimate_memory_needed(source)
        THEN Return(StoreError(c0, [c0.p.last_error EXCEPT
                                       !.code = "FLD_ERROR_INSUFFICIENT_MEMORY"]), FALSE)
        ELSE IF a.ptr = NULL
        THEN Return(StoreError(Exhaust([c0 EXCEPT !.p.allocator = a.alloc]),
                               [c0.p.last_error EXCEPT !.code = "FLD_ERROR_OUT_OF_MEMORY"]),
                    FALSE)
        ELSE Goto([r.c EXCEPT !.p.current = r.tok, !.p.previous = NullTok],
                  [fn |-> "fld_parse", pc |-> "parse_loop", last |-> NULL])

\* a loop that goes round again on a token that is not a key
LoopsOn(c, f, rv, g) ==
    LET c1  == ReadCur(c, g)
        tok == Cur(c1)
    IN  IF c1.halt # "no" THEN Return(c1, FALSE)
        ELSE IF tok.type = "TOKEN_EOF" THEN Return(c1, ~Failed(c1))
        ELSE IF tok.type # "TOKEN_KEY" THEN Goto(c1, f)
        ELSE Call(c1, [f EXCEPT !.pc = "parse_link"], FieldFrame(NULL))

\* the head of the loop of fld_parse
ParseLoop(c, f, rv, g) ==
    LET c1  == ReadCur(c, g)
        tok == Cur(c1)
    IN  IF c1.halt # "no" THEN Return(c1, FALSE)
        ELSE IF tok.type = "TOKEN_EOF" THEN Return(c1, ~Failed(c1))
        ELSE IF tok.type # "TOKEN_KEY"
        THEN Return(StoreError(c1, Err("FLD_ERROR_UNEXPECTED_TOKEN", tok.line, tok.column)),
                    FALSE)
        ELSE Call(c1, [f EXCEPT !.pc = "parse_link"], FieldFrame(NULL))

\* the loop of fld_parse from the return of _parse_field
ParseLink(c, f, rv, g) ==
    IF rv = NULL THEN Return(c, FALSE)
    ELSE Goto(IF c.p.root = NULL THEN [c EXCEPT !.p.root = rv]
              ELSE [c EXCEPT !.objs[f.last].next = rv],
              [f EXCEPT !.last = rv, !.pc = "parse_loop"])

(***************************************************************************)
(* The calls: the sources and buffers fld_parse is called with.            *)
(***************************************************************************)
MaxFields == 10     \* fields of the documents of Fields
MaxItems == 12      \* items of the arrays of IntArrays
MaxElems == 3       \* elements of the arrays of Arrays
MaxMoves == 5       \* fields and closing braces of the documents of Nested
MaxSoup == 3        \* lexemes of the documents of Soup
ExtraComps == 1     \* components beyond the arity in the documents of Vecs
MaxDigits == 3      \* digits of the short integer literals of IntLiterals
AmpleExtra == 65536 \* bytes an ample buffer has beyond the estimate
MemBase == 4096     \* address of the caller's memory region

RECURSIVE Cat(_)
Cat(ss) == IF ss = <<>> THEN <<>> ELSE Head(ss) \o Cat(Tail(ss))

RECURSIVE Join(_, _)
Join(ss, sep) ==
    IF ss = <<>> THEN <<>>
    ELSE IF Len(ss) = 1 THEN ss[1]
    ELSE ss[1] \o sep \o Join(Tail(ss), sep)

Rep(str, n) == Cat([i \in 1..n |-> str])

Seqs(S, n) == UNION {[1..k -> S] : k \in 0..n}

KeyNames == <<"a", "b", "c", "d", "e", "f", "g", "h">>

\* a=1;a=1;... : many small fields
Fields == {Rep(<<"a", "=", "1", ";">>, n) : n \in 0..MaxFields}

\* a=[e,e,...];
ArrayDoc(es) == <<"a", "=", "[">> \o Join(es, <<",">>) \o <<"]", ";">>

\* a=[1,1,...]; : one long array
IntArrays == {ArrayDoc([i \in 1..n |-> <<"1">>]) : n \in 1..MaxItems}

\* a=[1,1,...]; of n items, built without recursion
LongArray(n) ==
    <<"a", "=", "[">> \o [i \in 1..(2 * n - 1) |-> IF i % 2 = 1 THEN "1" ELSE ","]
                     \o <<"]", ";">>

\* a=[1,1,...]; with as many items as an array may have, and with one more
LimitArrays == {LongArray(n) : n \in {FLD_MAX_ARRAY_ITEMS, FLD_MAX_ARRAY_ITEMS + 1}}

ElemLexemes ==
    { <<"1">>, <<"-", "2">>, <<"2", ".", "5">>, <<"\"", "s", "\"">>, <<"\"", "\"">>,
      <<"t", "r", "u", "e">>, <<"[", "1", "]">>, <<"{", "}">> }

\* a=[e,e,...]; for every short sequence of elements
Arrays == {ArrayDoc(es) : es \in Seqs(ElemLexemes, MaxElems)}

Move(kind, i) ==
    CASE kind = "leaf"  -> <<KeyNames[i], "=", "1", ";">>
      [] kind = "open"  -> <<KeyNames[i], "=", "{">>
      [] kind = "close" -> <<"}", ";">>

\* fields, object openings and closings in every order: the nested documents
\* and the documents with a brace too many or too few
Nested == {Cat([i \in 1..Len(ms) |-> Move(ms[i], i)]) :
              ms \in Seqs({"leaf", "open", "close"}, MaxMoves)}

SoupLexemes ==
    { <<"a">>, <<"=">>, <<"1">>, <<";">>, <<"@">>, <<"\"", "u">> }

\* every short sequence of lexemes, most of them not documents
Soup == {Join(ls, <<" ">>) : ls \in Seqs(SoupLexemes, MaxSoup)}

CompLexemes == { <<"1">>, <<"2", ".", "5">>, <<"\"", "x", "\"">>, <<"t", "r", "u", "e">> }

\* a=vecN(c,c,...);
VecDoc(n, cs) == <<"a", "=", "v", "e", "c", n, "(">> \o Join(cs, <<",">>) \o <<")", ";">>

\* the arities, and the component lists with up to ExtraComps components too many
VecCases == UNION {{[n |-> n, cs |-> cs, doc |-> VecDoc(n, cs)] :
                       cs \in Seqs(CompLexemes, Digit(n) + ExtraComps)} :
                      n \in {"2", "3", "4"}}

Vecs == {v.doc : v \in VecCases}

\* a finished field and one more lexeme
Tails == {<<"a", "=", "1", ";">> \o l : l \in SoupLexemes}

\* 1.000...: a float literal of n + 1 digits
LongFloat(n) == <<"1", ".">> \o Rep(<<"0">>, n)

\* 11...1: an integer literal of n digits
LongInt(n) == Rep(<<"1">>, n)

\* a=<literal>;
ValueDoc(lit) == <<"a", "=">> \o lit \o <<";">>

\* literals at and over the digit budget, alone and after an error token, and
\* an integer literal that fills num_str to its last byte
Numbers == {ValueDoc(pre \o LongFloat(n)) :
               pre \in {<<>>, <<"@">>}, n \in {FLD_MAX_DIGITS - 1, FLD_MAX_DIGITS}}
           \cup {ValueDoc(LongInt(n)) :
                    n \in {FLD_MAX_DIGITS, FLD_MAX_DIGITS + 1, NumStrSize}}

\* digit strings that denote an int: the short ones, with leading zeros, and
\* some up to the greatest int
IntLiterals ==
    (Seqs({"0", "1", "9"}, MaxDigits) \ {<<>>})
        \cup { <<"2", "1", "4", "1">>, <<"6", "5", "5", "3", "6">>,
               <<"1", "0", "0", "0", "0", "0", "0", "0", "0", "0">>,
               <<"2", "1", "4", "7", "4", "8", "3", "6", "4", "7">>,
               <<"0", "0", "2", "1", "4", "7", "4", "8", "3", "6", "4", "6">> }

RECURSIVE Denoted(_)
\* the number a digit string denotes
Denoted(ds) ==
    IF ds = <<>> THEN 0
    ELSE 10 * Denoted(SubSeq(ds, 1, Len(ds) - 1)) + Digit(ds[Len(ds)])

\* a=<int>; and a=-<int>; with the number the literal denotes
IntCases ==
    {[doc |-> ValueDoc(l), val |-> Denoted(l)] : l \in IntLiterals}
        \cup {[doc |-> ValueDoc(<<"-">> \o l), val |-> 0 - Denoted(l)] : l \in IntLiterals}

Ints == {v.doc : v \in IntCases}

\* a=+5; and a=+1.5;
PlusInt == ValueDoc(<<"+", "5">>)
PlusFloat == ValueDoc(<<"+", "1", ".", "5">>)

\* a="";
EmptyStringDoc == ValueDoc(<<"\"", "\"">>)

\* identifiers: the keywords and their neighbours
Identifiers ==
    { <<"t", "r", "u", "e">>, <<"f", "a", "l", "s", "e">>, <<"T", "r", "u", "e">>,
      <<"t", "r", "u">>, <<"t", "r", "u", "e", "r">>, <<"f", "a", "l", "s", "y">>,
      <<"f", "a", "l", "s", "e", "1">>,
      <<"v", "e", "c">>, <<"v", "e", "c", "0">>, <<"v", "e", "c", "1">>,
      <<"v", "e", "c", "2">>, <<"v", "e", "c", "3">>, <<"v", "e", "c", "4">>,
      <<"v", "e", "c", "5">>, <<"v", "e", "c", "9">>, <<"v", "e", "c", "s">>,
      <<"v", "e", "c", "_">>, <<"v", "e", "c", "A">>, <<"v", "e", "c", "2", "2">>,
      <<"v", "e", "c", "2", "x">>, <<"V", "e", "c", "2">>, <<"_">>, <<"_", "a", "1">>,
      <<"k", "9", "_", "Z">> }

\* <identifier>=1;
IdentDoc(id) == id \o <<"=", "1", ";">>

Idents == {IdentDoc(id) : id \in Identifiers}

\* complete fields and then a block comment that is never closed
OpenTails ==
    { <<"/", "*">>, <<"/", "*", " ", "x">>, <<"/", "*", "x", "*">>, <<"/", "*", "/">>,
      <<" ", "/", "*", "\n", "b", "=", "2", ";">> }

OpenComments == {Rep(<<"a", "=", "1", ";">>, n) \o t : n \in 0..2, t \in OpenTails}

\* ab="st";c=["u","vw"]; : a String value and an array of Strings
StringsDoc ==
    <<"a", "b", "=", "\"", "s", "t", "\"", ";",
      "c", "=", "[", "\"", "u", "\"", ",", "\"", "v", "w", "\"", "]", ";">>

Sources ==
    Fields \cup IntArrays \cup LimitArrays \cup Arrays \cup Nested \cup Soup \cup Tails
        \cup Vecs \cup Numbers \cup Ints \cup {PlusInt, PlusFloat, EmptyStringDoc}
        \cup Idents \cup OpenComments \cup {StringsDoc}

\* a buffer one byte short of the estimate, of exactly the estimate, and ample
SizesFor(source) ==
    LET needed == _estimate_memory_needed(source)
    IN  {needed - 1, needed, needed + AmpleExtra}

(***************************************************************************)
(* The state machine.                                                      *)
(***************************************************************************)
\* fld_parser parser = {0};
ZeroParser ==
    [lexer      |-> [start |-> NULL, current |-> NULL, line |-> 0, column |-> 0],
     current    |-> NullTok,
     previous   |-> NullTok,
     source     |-> NULL,
     last_error |-> Err("FLD_ERROR_NONE", 0, 0),
     allocator  |-> [start |-> NULL, current |-> NULL, end |-> NULL],
     root       |-> NULL]

Init ==
    /\ parser = ZeroParser
    /\ text = <<>>
    /\ objs = <<>>
    /\ arrs = <<>>
    /\ nullpage = "unread"
    /\ stack = <<>>
    /\ ret = [object |-> NULL]
    /\ pc = "idle"
    /\ args = [source |-> <<>>, memory |-> NULL, size |-> 0]
    /\ result = FALSE
    /\ written = FALSE
    /\ smashed = FALSE
    /\ exhausted = FALSE
    /\ hist = Err("FLD_ERROR_NONE", 0, 0)

Ctx ==
    [p |-> parser, text |-> text, objs |-> objs, arrs |-> arrs, nullpage |-> nullpage,
     halt |-> "no", smashed |-> smashed, exhausted |-> exhausted, written |-> written,
     first |-> hist]

Top == stack[Len(stack)]

\* the pointer a function returns: _parse_field a fld_object *, the others a
\* fld_value *
Pointer(fn, rv) == IF fn = "_parse_field" THEN [object |-> rv] ELSE [value |-> rv]

\* what the caller gets
Pointee(r) == IF "object" \in DOMAIN r THEN r.object ELSE r.value

\* the effect of a block on the memory and on the call stack
Apply(out) ==
    /\ parser' = out.c.p
    /\ text' = out.c.text
    /\ objs' = out.c.objs
    /\ arrs' = out.c.arrs
    /\ nullpage' = out.c.nullpage
    /\ smashed' = out.c.smashed
    /\ exhausted' = out.c.exhausted
    /\ written' = out.c.written
    /\ hist' = out.c.first
    /\ IF out.c.halt # "no"
       THEN /\ pc' = (IF out.c.halt = "trap" THEN "crashed" ELSE "hung")
            /\ UNCHANGED <<stack, ret, result>>
       ELSE CASE out.op = "goto" ->
                   /\ stack' = IF stack = <<>> THEN <<out.frame>>
                               ELSE [stack EXCEPT ![Len(stack)] = out.frame]
                   /\ pc' = "running"
                   /\ UNCHANGED <<ret, result>>
              [] out.op = "call" ->
                   /\ stack' = Append([stack EXCEPT ![Len(stack)] = out.frame], out.callee)
                   /\ pc' = "running"
                   /\ UNCHANGED <<ret, result>>
              [] out.op = "become" ->
                   /\ stack' = [stack EXCEPT ![Len(stack)] = out.callee]
                   /\ pc' = "running"
                   /\ UNCHANGED <<ret, result>>
              [] out.op = "ret" ->
                   IF Len(stack) <= 1
                   THEN /\ stack' = <<>>
                        /\ pc' = "returned"
                        /\ result' = out.rv
                        /\ UNCHANGED ret
                   ELSE /\ stack' = SubSeq(stack, 1, Len(stack) - 1)
                        /\ pc' = "running"
                        /\ ret' = Pointer(Top.fn, out.rv)
                        /\ UNCHANGED result

\* a block of the function on top of the stack; the environment picks the
\* outcome when the block makes the first null read or stores past num_str
Step(label, Block(_, _, _, _)) ==
    /\ pc = "running"
    /\ Top.pc = label
    /\ UNCHANGED args
    /\ IF Block(Ctx, Top, Pointee(ret), "trap").c.halt = "no"
       THEN Apply(Block(Ctx, Top, Pointee(ret), "trap"))
       ELSE \E g \in NullOutcomes : Apply(Block(Ctx, Top, Pointee(ret), g))

\* the caller calls fld_parse(&parser, source, memory, size)
FldParse ==
    /\ pc = "idle"
    /\ \E source \in Sources : \E size \in SizesFor(source) :
          /\ args' = [source |-> source, memory |-> MemBase, size |-> size]
          /\ \E g \in NullOutcomes :
                Apply(fld_parse(Ctx, source, MemBase, size, g))

FldParseLoop == Step("parse_loop", ParseLoop)

FldParseLink == Step("parse_link", ParseLink)

ParseField == Step("field_begin", _parse_field)

ParseFieldValue == Step("field_value", FieldValue)

ParseValue == Step("value", _parse_value)

ParseVec == Step("vec", _parse_vec)

ParseObject == Step("object_begin", _parse_object)

ParseObjectFields == Step("object_loop", _parse_object_fields)

ParseObjectLink == Step("object_link", ObjectLink)

ParseArray == Step("array_begin", _parse_array)

ParseArrayFirst == Step("array_first", ArrayFirst)

ParseArrayCount == Step("array_count", ArrayCount)

ParseArrayItem == Step("array_item", ArrayItem)

Next ==
    \/ FldParse
    \/ FldParseLoop
    \/ FldParseLink
    \/ ParseField
    \/ ParseFieldValue
    \/ ParseValue
    \/ ParseVec
    \/ ParseObject
    \/ ParseObjectFields
    \/ ParseObjectLink
    \/ ParseArray
    \/ ParseArrayFirst
    \/ ParseArrayCount
    \/ ParseArrayItem

Spec == Init /\ [][Next]_vars

(***************************************************************************)
(* The arena alone: _bump_init over a region, then any calls of the two    *)
(* allocation functions.  args keeps the region and the last request, ret  *)
(* the pointer the last request returned.                                  *)
(***************************************************************************)
MaxArena == 24      \* bytes of the largest region

\* regions at an aligned and at unaligned addresses
ArenaBases == {MemBase, MemBase + 1, MemBase + 3}

\* the sizes requested
ArenaSizes == {0, 1, 3, SizeofInt, SizeofStringView}

\* the alignments the parser requests: those of bool and char, int and float,
\* and the structs
ArenaAligns == {AlignofBool, AlignofInt, AlignofValue}

ArenaInit ==
    /\ \E memory \in ArenaBases : \E size \in 0..MaxArena :
          /\ parser = [ZeroParser EXCEPT !.allocator = _bump_init(memory, size)]
          /\ args = [memory |-> memory, region |-> size, op |-> "_bump_init",
                     size |-> 0, align |-> 1, before |-> memory]
    /\ pc = "arena"
    /\ text = <<>>
    /\ objs = <<>>
    /\ arrs = <<>>
    /\ nullpage = "unread"
    /\ stack = <<>>
    /\ ret = NULL
    /\ result = FALSE
    /\ written = FALSE
    /\ smashed = FALSE
    /\ exhausted = FALSE
    /\ hist = Err("FLD_ERROR_NONE", 0, 0)

\* the allocator after the call and the pointer it returned
Allocated(r, op, size, align) ==
    /\ parser' = [parser EXCEPT !.allocator = r.alloc]
    /\ ret' = r.ptr
    /\ args' = [args EXCEPT !.op = op, !.size = size, !.align = align,
                            !.before = parser.allocator.current]
    /\ UNCHANGED <<text, objs, arrs, nullpage, stack, pc, result, written, smashed,
                   exhausted, hist>>

BumpAlloc ==
    /\ pc = "arena"
    /\ \E size \in ArenaSizes : \E align \in ArenaAligns :
          Allocated(_bump_alloc(parser.allocator, size, align), "_bump_alloc", size, align)

BumpAllocRaw ==
    /\ pc = "arena"
    /\ \E size \in ArenaSizes :
          Allocated(_bump_alloc_raw(parser.allocator, size), "_bump_alloc_raw", size, 1)

NextArena ==
    \/ BumpAlloc
    \/ BumpAllocRaw

SpecArena == ArenaInit /\ [][NextArena]_vars

(***************************************************************************)
(* The claims.                                                             *)
(***************************************************************************)
Estimate == _estimate_memory_needed(args.source)

Returned == pc = "returned"

ErrorCode == parser.last_error.code

\* C1: whenever fld_parse returns, its result is true exactly when
\* last_error.code is FLD_ERROR_NONE.
ResultIffNoError == Returned => (result <=> ErrorCode = "FLD_ERROR_NONE")

\* a parse that passed the pre-flight check returned false
FailedPastPreflight == Returned /\ ~result /\ written

\* C2: once a parse has stored an error, code, line and column of last_error
\* stay what that first store made them.
FirstErrorStays ==
    (pc \in {"running", "returned"} /\ hist.code # "FLD_ERROR_NONE") =>
        parser.last_error = hist

\* C3: no null result of an allocation is read or written through, and a
\* parse in which an allocation failed returns false with
\* FLD_ERROR_OUT_OF_MEMORY.
ExhaustionHandled ==
    /\ nullpage = "unread"
    /\ pc \notin {"crashed", "hung"}
    /\ (Returned /\ exhausted) => (~result /\ ErrorCode = "FLD_ERROR_OUT_OF_MEMORY")

\* the least address from addr on that is a multiple of align
LeastAligned(addr, align) == CHOOSE a \in addr..(addr + align - 1) : a % align = 0

\* C4: start <= current <= end after _bump_init and any calls; a call that
\* succeeds returns an aligned address not below the old current and sets
\* current to it plus size; a call whose aligned end is past end returns null
\* and leaves current alone.
ArenaSound ==
    pc = "arena" =>
        LET al == parser.allocator
        IN  /\ al.start = args.memory
            /\ al.end = args.memory + args.region
            /\ al.start <= al.current
            /\ al.current <= al.end
            /\ args.op # "_bump_init" =>
                  IF LeastAligned(args.before, args.align) + args.size > al.end
                  THEN ret = NULL /\ al.current = args.before
                  ELSE /\ ret # NULL
                       /\ ret >= args.before
                       /\ ret % args.align = 0
                       /\ al.current = ret + args.size

\* an aligned request is refused in a region that earlier requests used in part
ArenaRefused ==
    /\ pc = "arena"
    /\ args.op = "_bump_alloc"
    /\ ret = NULL
    /\ parser.allocator.start < parser.allocator.current
    /\ parser.allocator.current < parser.allocator.end

\* C5: with size below the estimate fld_parse returns false with
\* FLD_ERROR_INSUFFICIENT_MEMORY at (1,1), root null, the arena not set up
\* over the buffer and no byte of the buffer written.
PreflightRejects ==
    (Returned /\ args.size < Estimate) =>
        /\ ~result
        /\ parser.last_error = Err("FLD_ERROR_INSUFFICIENT_MEMORY", 1, 1)
        /\ parser.root = NULL
        /\ parser.allocator = ZeroParser.allocator
        /\ ~written

\* a document of several fields was refused for a buffer one byte short
RefusedShortBuffer ==
    Returned /\ args.size = Estimate - 1 /\ args.source \in Fields /\ Len(args.source) > 4

\* the grammatically valid documents among Sources that are long
ValidSources == Fields \cup IntArrays

\* C6: with a buffer of exactly the estimate, no allocation of the parse of
\* a grammatically valid source fails.
EstimateSuffices ==
    (pc # "idle" /\ args.source \in ValidSources /\ args.size = Estimate) => ~exhausted

\* C7: after a false return parser.root exposes no fields.
NoPartialTree == (Returned /\ ~result) => parser.root = NULL

RECURSIVE Level(_, _)
\* the fields from first on along next, at most fuel of them
Level(first, fuel) ==
    IF first = NULL \/ fuel = 0 THEN <<>>
    ELSE <<first>> \o Level(objs[first].next, fuel - 1)

RECURSIVE Preorder(_, _)
\* the fields of the list at first, each followed by the fields below it
Preorder(first, fuel) ==
    IF first = NULL \/ fuel = 0 THEN <<>>
    ELSE <<first>>
         \o (IF objs[first].value.type = "FLD_VALUE_OBJECT"
             THEN Preorder(objs[first].value.object, fuel - 1) ELSE <<>>)
         \o Preorder(objs[first].next, fuel - 1)

RECURSIVE LevelLinked(_, _, _)
\* the list at first ends in null, its fields have the parent given, and so on
\* below each of them
LevelLinked(first, parent, fuel) ==
    LET fields == Level(first, fuel)
    IN  /\ first # NULL => objs[fields[Len(fields)]].next = NULL
        /\ \A i \in 1..Len(fields) :
              /\ objs[fields[i]].parent = parent
              /\ objs[fields[i]].value.type = "FLD_VALUE_OBJECT" =>
                    /\ fuel > 0
                    /\ LevelLinked(objs[fields[i]].value.object, fields[i], fuel - 1)

\* C8: after a successful parse the top-level fields have a null parent and
\* the fields of an object have the field holding the object; each level is
\* linked through next in source order and ends with next = null.
TreeLinked ==
    (Returned /\ result) =>
        LET n     == Cardinality(DOMAIN objs)
            order == Preorder(parser.root, n)
        IN  /\ LevelLinked(parser.root, NULL, n)
            /\ {order[i] : i \in 1..Len(order)} = DOMAIN objs
            /\ \A i \in 1..(Len(order) - 1) :
                  objs[order[i]].key.start < objs[order[i + 1]].key.start

\* a parsed tree in which a nested field has a following sibling and the
\* object they are in has one too
NestedSiblings ==
    /\ Returned
    /\ result
    /\ \E f \in DOMAIN objs :
          /\ objs[f].parent # NULL
          /\ objs[f].next # NULL
          /\ objs[objs[f].parent].next # NULL

\* the tag of the value an element lexeme denotes
ElemTag(l) ==
    CASE l[1] = "\"" -> "FLD_VALUE_STRING"
      [] l[1] = "t"  -> "FLD_VALUE_BOOL"
      [] l[1] = "["  -> "FLD_VALUE_ARRAY"
      [] l[1] = "{"  -> "FLD_VALUE_OBJECT"
      [] OTHER       -> IF \E i \in 1..Len(l) : l[i] = "."
                        THEN "FLD_VALUE_FLOAT" ELSE "FLD_VALUE_INT"

ScalarTags == {"FLD_VALUE_STRING", "FLD_VALUE_INT", "FLD_VALUE_FLOAT", "FLD_VALUE_BOOL"}

\* the array documents of Sources, by their elements
ElemLists == Seqs(ElemLexemes, MaxElems) \cup {[i \in 1..n |-> <<"1">>] : n \in 1..MaxItems}

\* C9: when the buffer passes the pre-flight check, an array of scalar
\* elements of which one differs in tag from the first fails the parse with
\* FLD_ERROR_ARRAY_TYPE_MISMATCH, and an array whose first element is an
\* array or an object fails it with FLD_ERROR_ARRAY_NOT_SUPPORTED_TYPE.
ArrayErrors ==
    (Returned /\ args.size >= Estimate) =>
        \A es \in ElemLists :
            (es # <<>> /\ args.source = ArrayDoc(es)) =>
                /\ ElemTag(es[1]) \notin ScalarTags =>
                      ~result /\ ErrorCode = "FLD_ERROR_ARRAY_NOT_SUPPORTED_TYPE"
                /\ ( /\ \A i \in 1..Len(es) : ElemTag(es[i]) \in ScalarTags
                     /\ \E i \in 1..Len(es) : ElemTag(es[i]) # ElemTag(es[1]) ) =>
                      ~result /\ ErrorCode = "FLD_ERROR_ARRAY_TYPE_MISMATCH"

\* the payload an element lexeme denotes: the characters of a string, the
\* number, the boolean
Payload(l) ==
    CASE l = <<"1">>                -> 1
      [] l = <<"-", "2">>           -> 0 - 2
      [] l = <<"2", ".", "5">>      -> [ip |-> <<2>>, fp |-> <<5>>, neg |-> FALSE]
      [] l = <<"t", "r", "u", "e">> -> TRUE
      [] l[1] = "\""                -> SubSeq(l, 2, Len(l) - 1)

\* a packed item as the caller reads it: the characters of a string span
Shown(tag, item) ==
    IF tag = "FLD_VALUE_STRING"
    THEN [i \in 1..item.length |-> text[item.start - parser.source + i]]
    ELSE item

\* C10: with ample memory an array of n >= 1 String, Int, Float or Bool
\* elements of one tag parses to an Array of that element type and count n
\* whose item i is the payload of element i, and [] to an Array of count 0
\* with null items.
ArrayPacked ==
    (Returned /\ args.size >= Estimate + AmpleExtra) =>
        \A es \in ElemLists :
            ( /\ args.source = ArrayDoc(es)
              /\ \A i \in 1..Len(es) :
                    ElemTag(es[i]) \in ScalarTags /\ ElemTag(es[i]) = ElemTag(es[1]) ) =>
                /\ result
                /\ parser.root # NULL
                /\ objs[parser.root].value.type = "FLD_VALUE_ARRAY"
                /\ LET array == objs[parser.root].value.array
                   IN  IF es = <<>>
                       THEN array.count = 0 /\ array.items = NULL
                       ELSE /\ array.type = ElemTag(es[1])
                            /\ array.count = Len(es)
                            /\ \A i \in 1..Len(es) :
                                  Shown(array.type, arrs[array.items][i]) = Payload(es[i])

\* whether the parse had a buffer well beyond the estimate
Ample == args.size >= Estimate + AmpleExtra

\* C11: with ample memory an array of FLD_MAX_ARRAY_ITEMS Int items parses to
\* an array of that count, and one of FLD_MAX_ARRAY_ITEMS + 1 items fails
\* with FLD_ERROR_ARRAY_TOO_MANY_ITEMS before any item storage is allocated.
ItemLimit ==
    (Returned /\ Ample) =>
        \A n \in {FLD_MAX_ARRAY_ITEMS, FLD_MAX_ARRAY_ITEMS + 1} :
            args.source = LongArray(n) =>
                IF n <= FLD_MAX_ARRAY_ITEMS
                THEN /\ result
                     /\ objs[parser.root].value.type = "FLD_VALUE_ARRAY"
                     /\ objs[parser.root].value.array.count = n
                     /\ Len(arrs[objs[parser.root].value.array.items]) = n
                ELSE /\ ~result
                     /\ ErrorCode = "FLD_ERROR_ARRAY_TOO_MANY_ITEMS"
                     /\ arrs = <<>>

\* the array of one item too many was refused
OverLimitRefused ==
    /\ Returned
    /\ Ample
    /\ args.source = LongArray(FLD_MAX_ARRAY_ITEMS + 1)
    /\ ErrorCode = "FLD_ERROR_ARRAY_TOO_MANY_ITEMS"

\* the float a component lexeme denotes
CompFloat(l) ==
    CASE l = <<"1">>           -> [ip |-> <<1>>, fp |-> <<>>, neg |-> FALSE]
      [] l = <<"2", ".", "5">> -> [ip |-> <<2>>, fp |-> <<5>>, neg |-> FALSE]

Numeric(l) == l \in {<<"1">>, <<"2", ".", "5">>}

\* C12: with ample memory vecN(c1,...,ck) parses exactly when k = N and every
\* ci is an Int or a Float; then the tag is FLD_VALUE_VEC2 + (N - 2) and
\* component i is ci as a float; otherwise the parse fails with
\* FLD_ERROR_UNEXPECTED_TOKEN.
VecParses ==
    (Returned /\ Ample) =>
        \A v \in VecCases :
            args.source = v.doc =>
                IF Len(v.cs) = Digit(v.n) /\ \A i \in 1..Len(v.cs) : Numeric(v.cs[i])
                THEN /\ result
                     /\ parser.root # NULL
                     /\ TypeNum(objs[parser.root].value.type)
                           = TypeNum("FLD_VALUE_VEC2") + (Digit(v.n) - 2)
                     /\ objs[parser.root].value.vec
                           = [i \in 1..Len(v.cs) |-> CompFloat(v.cs[i])]
                ELSE ~result /\ ErrorCode = "FLD_ERROR_UNEXPECTED_TOKEN"

\* a vec4 of Int and Float components was parsed
MixedVec4 ==
    /\ Returned
    /\ result
    /\ args.source = VecDoc("4", << <<"1">>, <<"2", ".", "5">>, <<"1">>, <<"2", ".", "5">> >>)

\* the documents of one literal of more than FLD_MAX_DIGITS digits
OverBudget ==
    {ValueDoc(LongFloat(FLD_MAX_DIGITS)), ValueDoc(LongInt(FLD_MAX_DIGITS + 1)),
     ValueDoc(LongInt(NumStrSize))}

\* C13: a parse of a literal of more than FLD_MAX_DIGITS digits fails with
\* FLD_ERROR_INVALID_NUMBER, and no store goes past the end of num_str.
DigitBudget ==
    /\ ~smashed
    /\ (Returned /\ Ample /\ args.source \in OverBudget) =>
          (~result /\ ErrorCode = "FLD_ERROR_INVALID_NUMBER")

\* the value of the only field of the document parsed
OnlyValue == objs[parser.root].value

\* a document of one field named a was parsed
OneField ==
    /\ result
    /\ parser.root # NULL
    /\ objs[parser.root].next = NULL
    /\ Shown("FLD_VALUE_STRING", objs[parser.root].key) = <<"a">>

\* C14: with ample memory a decimal integer literal with an optional '-' whose
\* magnitude fits an int parses to a field of tag Int whose value is the
\* number the literal denotes.
IntExact ==
    (Returned /\ Ample) =>
        \A v \in IntCases :
            args.source = v.doc =>
                /\ OneField
                /\ OnlyValue.type = "FLD_VALUE_INT"
                /\ OnlyValue.integer = v.val

\* the least literal of the corpus was parsed
NegativeParsed ==
    /\ Returned
    /\ result
    /\ args.source = ValueDoc(<<"-", "2", "1", "4", "7", "4", "8", "3", "6", "4", "7">>)
    /\ OnlyValue.integer = 0 - 2147483647

\* C15: a '+' before a digit begins a numeric literal: with ample memory
\* a=+5; parses to the Int 5 and a=+1.5; to the Float 1.5.
PlusSigned ==
    (Returned /\ Ample) =>
        /\ args.source = PlusInt =>
              OneField /\ OnlyValue.type = "FLD_VALUE_INT" /\ OnlyValue.integer = 5
        /\ args.source = PlusFloat =>
              /\ OneField
              /\ OnlyValue.type = "FLD_VALUE_FLOAT"
              /\ OnlyValue.float_val = [ip |-> <<1>>, fp |-> <<5>>, neg |-> FALSE]

\* C16: with ample memory a=""; parses to a field of tag String whose span
\* has length zero.
EmptyStringAccepted ==
    (Returned /\ Ample /\ args.source = EmptyStringDoc) =>
        /\ OneField
        /\ OnlyValue.type = "FLD_VALUE_STRING"
        /\ OnlyValue.string.length = 0

\* fld_parse has scanned the first token of the source and nothing more
FirstScanned ==
    /\ pc = "running"
    /\ Len(stack) = 1
    /\ Top.pc = "parse_loop"
    /\ IsNull(parser.previous)

\* the token an identifier is to lex as, located at the start of the source
Classified(id) ==
    CASE id \in {<<"t", "r", "u", "e">>, <<"f", "a", "l", "s", "e">>} ->
            [type |-> "TOKEN_BOOL", boolean |-> id[1] = "t"]
      [] Len(id) = 4 /\ SubSeq(id, 1, 3) = <<"v", "e", "c">> /\ _is_digit(id[4]) ->
            IF id[4] \in {"2", "3", "4"}
            THEN [type |-> "TOKEN_VEC", integer |-> Digit(id[4])]
            ELSE [type |-> "TOKEN_ERROR"]
      [] OTHER ->
            [type |-> "TOKEN_KEY", string |-> [start |-> parser.source, length |-> Len(id)]]

\* C17: an identifier lexes as a Bool token exactly when it is true or false,
\* as a Vec token with payload N exactly when it is vec2, vec3 or vec4, as an
\* Error token when it is vec and one other digit, and otherwise as a Key
\* token spanning the whole identifier.
IdentClassified ==
    (FirstScanned /\ Ample) =>
        \A id \in Identifiers :
            args.source = IdentDoc(id) =>
                \A fld \in DOMAIN Classified(id) : 
                    /\ fld \in DOMAIN parser.current
                    /\ parser.current[fld] = Classified(id)[fld]

\* C18: with ample memory a document whose fields are followed by a block
\* comment that is never closed parses successfully: no error, the token
\* after the comment is EOF, and the fields before it are the tree.
OpenCommentIgnored ==
    (Returned /\ Ample) =>
        \A n \in 0..2 : \A t \in OpenTails :
            args.source = Rep(<<"a", "=", "1", ";">>, n) \o t =>
                /\ result
                /\ ErrorCode = "FLD_ERROR_NONE"
                /\ parser.current.type = "TOKEN_EOF"
                /\ Len(Level(parser.root, n + 1)) = n

(***************************************************************************)
(* A document parsed plain, and then parsed again with comments between    *)
(* its tokens by a fresh parser.                                           *)
(***************************************************************************)
MaxComments == 2    \* comments put into one document, unless every gap gets one

\* the documents, token by token
BaseDocs ==
    { <<>>,
      << <<"a">>, <<"=">>, <<"-", "2", ".", "5">>, <<";">>,
         <<"b">>, <<"=">>, <<"t", "r", "u", "e">>, <<";">> >>,
      << <<"a">>, <<"=">>, <<"[">>, <<"1">>, <<",">>, <<"2">>, <<"]">>, <<";">> >>,
      << <<"a">>, <<"=">>, <<"{">>, <<"b">>, <<"=">>, <<"\"", "s", "\"">>, <<";">>, <<"}">>,
         <<";">> >>,
      << <<"a">>, <<"=">>, <<"v", "e", "c", "2">>, <<"(">>, <<"1">>, <<",">>,
         <<"2", ".", "5">>, <<")">>, <<";">> >>,
      << <<"a">>, <<"=">>, <<"[">>, <<"1">>, <<",">>, <<"\"", "s", "\"">>, <<"]">>, <<";">> >>,
      << <<"k">>, <<" ", "=">>, <<" ", "{">>, <<"}">>, <<";">> >>,
      << <<"a">>, <<"=">>, <<";">> >>,
      << <<"=">>, <<"1">>, <<";">> >> }

\* // to the newline, /* */ on one line and over two, and each holding the
\* opening of the other
CommentKinds ==
    << <<"/", "/", "c", "\n">>,
       <<"/", "*", "c", "*", "/">>,
       <<"/", "*", "\n", "*", "*", "/">>,
       <<"/", "/", "/", "*", "\n">>,
       <<"/", "*", "/", "/", "*", "/">> >>

\* the gaps of a document that get a comment: before the first token (0), after
\* token i (i), in any MaxComments places or everywhere
Placings(doc) ==
    {at \in SUBSET (0..Len(doc)) : Cardinality(at) <= MaxComments \/ at = 0..Len(doc)}

\* the comment in gap i: the kinds in turn from kind off on
CommentAt(at, off, i) ==
    IF i \in at
    THEN CommentKinds[((off + Cardinality({j \in at : j < i})) % Len(CommentKinds)) + 1]
    ELSE <<>>

\* doc with the comments placed
Commented(doc, at, off) ==
    Cat([j \in 1..(2 * Len(doc) + 1) |->
            IF j % 2 = 1 THEN CommentAt(at, off, (j - 1) \div 2) ELSE doc[j \div 2]])

RECURSIVE Tree(_, _)
\* what a caller reads of the fields from first on: key, tag and payload of
\* each, the fields of an object in its place
Tree(first, fuel) ==
    IF first = NULL \/ fuel = 0 THEN <<>>
    ELSE LET v == objs[first].value
             payload ==
                 CASE v.type = "FLD_VALUE_STRING" -> Shown(v.type, v.string)
                   [] v.type = "FLD_VALUE_INT"    -> v.integer
                   [] v.type = "FLD_VALUE_FLOAT"  -> v.float_val
                   [] v.type = "FLD_VALUE_BOOL"   -> v.boolean
                   [] v.type = "FLD_VALUE_ARRAY"  ->
                         [type  |-> v.array.type,
                          items |-> [i \in 1..v.array.count |->
                                        Shown(v.array.type, arrs[v.array.items][i])]]
                   [] v.type = "FLD_VALUE_OBJECT" -> Tree(v.object, fuel - 1)
                   [] OTHER                       -> v.vec
         IN  <<[key     |-> Shown("FLD_VALUE_STRING", objs[first].key),
                tag     |-> v.type,
                payload |-> payload]>>
             \o Tree(objs[first].next, fuel - 1)

\* the paths the caller asks for
Paths == {<<>>, <<"k">>, <<"z">>, <<"a">>, <<"a", ".", "b">>, <<".", "a", ".">>}

\* one call of strtok with the delimiter '.' on the characters s it is given
\* or has kept: the token, <<>> for a null one, and what it keeps for the next
\* call
strtok_r(s) ==
    LET starts == {i \in 1..Len(s) : s[i] # "."}
    IN  IF starts = {} THEN [token |-> <<>>, save |-> <<>>]
        ELSE LET b     == CHOOSE i \in starts : \A j \in starts : i <= j
                 stops == {j \in b..Len(s) : s[j] = "."}
                 e     == IF stops = {} THEN Len(s) + 1
                          ELSE CHOOSE j \in stops : \A k \in stops : j <= k
             IN  [token |-> SubSeq(s, b, e - 1), save |-> SubSeq(s, e + 1, Len(s))]

RECURSIVE strtok(_)
\* the tokens strtok(path_copy, ".") and strtok(NULL, ".") give in turn: the
\* runs of characters other than '.'
strtok(path) ==
    LET r == strtok_r(path)
    IN  IF r.token = <<>> THEN <<>> ELSE <<r.token>> \o strtok(r.save)

RECURSIVE fld_get_field(_, _)
fld_get_field(object, path) ==
    IF object = NULL THEN NULL
    ELSE IF /\ objs[object].key.length = Len(path)
            /\ Shown("FLD_VALUE_STRING", objs[object].key) = path
    THEN object
    ELSE fld_get_field(objs[object].next, path)

RECURSIVE PathLoop(_, _)
\* the loop of fld_get_field_by_path: tokens are the token at hand and the
\* ones to come
PathLoop(current, tokens) ==
    IF tokens = <<>> THEN NULL
    ELSE LET field == fld_get_field(current, Head(tokens))
         IN  IF field = NULL THEN NULL
             ELSE IF Len(tokens) > 1
             THEN IF objs[field].value.type # "FLD_VALUE_OBJECT" THEN NULL
                  ELSE PathLoop(objs[field].value.object, Tail(tokens))
             ELSE field

fld_get_field_by_path(object, path) ==
    IF path = <<>> THEN NULL ELSE PathLoop(object, strtok(path))

\* fld_get_object that takes an object without fields for a missing one
NeedsFields(object, path) ==
    LET field == fld_get_field_by_path(object, path)
    IN  IF field = NULL THEN [ok |-> FALSE]
        ELSE IF objs[field].value.type # "FLD_VALUE_OBJECT" THEN [ok |-> FALSE]
        ELSE IF objs[field].value.object = NULL THEN [ok |-> FALSE]
        ELSE [ok |-> TRUE, out_object |-> objs[field].value.object]

\* ok is what fld_get_object returns, out_object what it stores if it does
fld_get_object(object, path) ==
    LET field == fld_get_field_by_path(object, path)
    IN  IF field = NULL THEN [ok |-> FALSE]
        ELSE IF objs[field].value.type # "FLD_VALUE_OBJECT" THEN [ok |-> FALSE]
        ELSE [ok |-> TRUE, out_object |-> objs[field].value.object]

fld_has_field(object, path) == fld_get_field_by_path(object, path) # NULL

\* the caller's call of an accessor on parser.root: its return value in result,
\* a pointer it stores in ret
Queried(fn, path, rv, stored) ==
    /\ args' = args @@ [fn |-> fn, path |-> path]
    /\ result' = rv
    /\ ret' = stored
    /\ pc' = "queried"
    /\ UNCHANGED <<parser, text, objs, arrs, nullpage, stack, written, smashed,
                   exhausted, hist>>

FldGetObject ==
    /\ pc = "returned"
    /\ \E path \in Paths :
          LET r == fld_get_object(parser.root, path)
          IN  Queried("fld_get_object", path, r.ok, IF r.ok THEN r.out_object ELSE ret)

FldHasField ==
    /\ pc = "returned"
    /\ \E path \in Paths :
          Queried("fld_has_field", path, fld_has_field(parser.root, path), ret)

\* fld_parser parser = {0}; over the memory of the former call
FreshCtx == [Ctx EXCEPT !.p = ZeroParser, !.text = <<>>, !.objs = <<>>, !.arrs = <<>>]

\* the caller calls fld_parse on a document without comments
FldParsePlain ==
    /\ pc = "idle"
    /\ \E doc \in BaseDocs :
          LET source == Cat(doc)
              size   == _estimate_memory_needed(source) + AmpleExtra
          IN  /\ args' = [source |-> source, memory |-> MemBase, size |-> size]
              /\ \E g \in NullOutcomes :
                    Apply(fld_parse(Ctx, source, MemBase, size, g))

\* the caller keeps what the plain parse gave and calls fld_parse with a new
\* parser on the same document with comments
FldParseCommented ==
    /\ pc = "returned"
    /\ "plain" \notin DOMAIN args
    /\ \E doc \in BaseDocs : \E at \in Placings(doc) : \E off \in 1..Len(CommentKinds) :
          LET source == Commented(doc, at, off)
              size   == _estimate_memory_needed(source) + AmpleExtra
          IN  /\ args.source = Cat(doc)
              /\ args' = [source |-> source, memory |-> MemBase, size |-> size,
                          plain  |-> [source |-> args.source, result |-> result,
                                      tree   |-> Tree(parser.root, Len(args.source))]]
              /\ \E g \in NullOutcomes :
                    Apply(fld_parse(FreshCtx, source, MemBase, size, g))

NextComments ==
    \/ FldParsePlain
    \/ FldParseCommented
    \/ FldGetObject
    \/ FldHasField
    \/ FldParseLoop
    \/ FldParseLink
    \/ ParseField
    \/ ParseFieldValue
    \/ ParseValue
    \/ ParseVec
    \/ ParseObject
    \/ ParseObjectFields
    \/ ParseObjectLink
    \/ ParseArray
    \/ ParseArrayFirst
    \/ ParseArrayCount
    \/ ParseArrayItem

SpecComments == Init /\ [][NextComments]_vars

\* the second parse, of the document with comments, returned
Reparsed == Returned /\ "plain" \in DOMAIN args

\* C19: a document with // comments ended by a newline and closed /* */
\* comments put between its tokens parses, with ample memory, to the same
\* result as the document without them and, on success, to a tree of the
\* same keys, tags, payloads and structure.
CommentsInvisible ==
    Reparsed =>
        /\ result = args.plain.result
        /\ result => Tree(parser.root, Len(args.source)) = args.plain.tree

\* a vec2 parsed with a comment in every gap, the ones inside the parentheses
\* included
CommentedVec ==
    /\ Reparsed
    /\ result
    /\ parser.root # NULL
    /\ objs[parser.root].value.type = "FLD_VALUE_VEC2"
    /\ \E doc \in BaseDocs : args.source = Commented(doc, 0..Len(doc), 1)

\* the document k = {};
EmptyObjectDoc == <<"k", " ", "=", " ", "{", "}", ";">>

\* an accessor was called with the path after the parse of k = {};
Asked(fn, path) ==
    /\ pc = "queried"
    /\ args.source = EmptyObjectDoc
    /\ args.fn = fn
    /\ args.path = path

\* C20: k = {}; parses to a field k of tag Object with a null field list;
\* fld_get_object on k succeeds and stores a null pointer, fld_has_field on k
\* is true, and both fail for a key that is absent.
EmptyObject ==
    /\ (Returned /\ args.source = EmptyObjectDoc) =>
          /\ result
          /\ parser.root # NULL
          /\ Shown("FLD_VALUE_STRING", objs[parser.root].key) = <<"k">>
          /\ objs[parser.root].value.type = "FLD_VALUE_OBJECT"
          /\ objs[parser.root].value.object = NULL
    /\ Asked("fld_get_object", <<"k">>) => (result /\ ret = NULL)
    /\ Asked("fld_has_field", <<"k">>) => result
    /\ Asked("fld_get_object", <<"z">>) => ~result
    /\ Asked("fld_has_field", <<"z">>) => ~result

\* fld_get_object was called for k after the parse of k = {};
AskedEmptyObject == Asked("fld_get_object", <<"k">>)

(***************************************************************************)
(* The caller's use of the tree of a parse: lookups by path and iterators. *)
(***************************************************************************)
\* a={b={c=1;};b=2;};a=3;s="x";  keys met twice, two levels of objects
Twice ==
    <<"a", "=", "{", "b", "=", "{", "c", "=", "1", ";", "}", ";", "b", "=", "2", ";", "}",
      ";", "a", "=", "3", ";", "s", "=", "\"", "x", "\"", ";">>

\* v=vec2(1,2);r=[1,2];o={};  no field below another
Flat ==
    <<"v", "=", "v", "e", "c", "2", "(", "1", ",", "2", ")", ";", "r", "=", "[", "1", ",",
      "2", "]", ";", "o", "=", "{", "}", ";">>

\* a={b={c=1;};};e=3;  an object that is the last field of an object
LastInside ==
    <<"a", "=", "{", "b", "=", "{", "c", "=", "1", ";", "}", ";", "}", ";", "e", "=", "3",
      ";">>

\* a={b={c=1;};d=2;};e=3;  an object with a field after it in an object
Inside ==
    <<"a", "=", "{", "b", "=", "{", "c", "=", "1", ";", "}", ";", "d", "=", "2", ";", "}",
      ";", "e", "=", "3", ";">>

\* a={a={ ... a=1; ... };};  n fields, each in the object of the one before
Deep(n) ==
    Rep(<<"a", "=", "{">>, n - 1) \o <<"a", "=", "1", ";">> \o Rep(<<"}", ";">>, n - 1)

TreeDocs == {Twice, Flat, LastInside, Inside, Deep(PathDepth), Deep(PathDepth + 1)}

\* a path as long as path_copy
LongPath == [i \in 1..FLD_MAX_PATH_LENGTH |-> "z"]

TreePaths ==
    { <<>>, <<"a">>, <<"s">>, <<"z">>, <<"a", ".", "b">>, <<"a", ".", "z">>,
      <<"a", ".", "b", ".", "c">>, <<"a", ".", "b", ".", "c", ".", "d">>,
      <<"s", ".", "s", "u", "b">>, <<"a", ".", ".", "b">>, <<"r">>, LongPath }

\* the caller calls fld_parse on a document with a buffer well beyond the estimate
FldParseTree ==
    /\ pc = "idle"
    /\ \E source \in TreeDocs :
          LET size == _estimate_memory_needed(source) + AmpleExtra
          IN  /\ args' = [source |-> source, memory |-> MemBase, size |-> size]
              /\ \E g \in NullOutcomes :
                    Apply(fld_parse(Ctx, source, MemBase, size, g))

\* the caller calls fld_get_field_by_path(parser.root, path), the field in ret;
\* strcpy of a path that path_copy does not hold is a store past path_copy,
\* which traps or goes on
FldGetFieldByPath ==
    /\ pc = "returned"
    /\ \E null \in BOOLEAN : \E path \in (IF null THEN {<<>>} ELSE TreePaths) :
       \E g \in {"trap", "no"} :
          LET over == Len(path) >= FLD_MAX_PATH_LENGTH
          IN  /\ args' = args @@ [fn |-> "fld_get_field_by_path", path |-> path,
                                  null |-> null]
              /\ smashed' = (smashed \/ over)
              /\ pc' = IF over /\ g = "trap" THEN "crashed" ELSE "queried"
              /\ ret' = IF over /\ g = "trap" THEN ret
                        ELSE IF null THEN NULL
                        ELSE fld_get_field_by_path(parser.root, path)
              /\ UNCHANGED <<parser, text, objs, arrs, nullpage, stack, result, written,
                             exhausted, hist>>

fld_iter_type == {"FLD_ITER_FIELDS", "FLD_ITER_RECURSIVE"}

fld_iter_init(root, type) == [type |-> type, current |-> root, depth |-> 0 - 1, parent |-> NULL]

\* iter after the call and the field returned
fld_iter_next(iter) ==
    LET recursive == iter.type = "FLD_ITER_RECURSIVE"
        current   == objs[iter.current]
    IN  IF iter.current = NULL THEN [iter |-> iter, rv |-> NULL]
        ELSE IF iter.depth = 0 - 1
        THEN [iter |-> [iter EXCEPT !.depth = 0], rv |-> iter.current]
        ELSE IF /\ recursive
                /\ current.value.type = "FLD_VALUE_OBJECT"
                /\ current.value.object # NULL
        THEN [iter |-> [iter EXCEPT !.parent = iter.current,
                                    !.current = current.value.object,
                                    !.depth = @ + 1],
              rv   |-> current.value.object]
        ELSE IF current.next # NULL
        THEN [iter |-> [iter EXCEPT !.current = current.next], rv |-> current.next]
        ELSE IF recursive /\ iter.parent # NULL
        THEN [iter |-> [iter EXCEPT !.current = objs[iter.parent].next,
                                    !.parent = objs[iter.parent].parent,
                                    !.depth = @ - 1],
              rv   |-> objs[iter.parent].next]
        ELSE [iter |-> [iter EXCEPT !.current = NULL], rv |-> NULL]

\* the field lists the caller has: parser.root and what fld_get_object gave
FieldLists ==
    {parser.root} \cup {fld_get_object(parser.root, path).out_object :
                           path \in {q \in TreePaths \ {LongPath} :
                                        fld_get_object(parser.root, q).ok}}

\* the caller's fld_iterator, the list it was started on and the fields
\* fld_iter_next has returned to the caller so far
IterFrame(iter, yielded) ==
    [fn |-> "caller", pc |-> "iter", iter |-> iter, yielded |-> yielded]

\* fld_iter_init(&iter, list, type) after a successful parse
FldIterInit ==
    /\ pc = "returned"
    /\ result
    /\ \E list \in FieldLists : \E type \in fld_iter_type :
          /\ args' = args @@ [fn |-> "fld_iter_init", list |-> list]
          /\ stack' = <<IterFrame(fld_iter_init(list, type), <<>>)>>
    /\ pc' = "iterating"
    /\ UNCHANGED <<parser, text, objs, arrs, nullpage, ret, result, written, smashed,
                   exhausted, hist>>

\* while ((field = fld_iter_next(&iter))) ...
FldIterNext ==
    /\ pc = "iterating"
    /\ LET r == fld_iter_next(Top.iter)
       IN  /\ stack' = <<IterFrame(r.iter, IF r.rv = NULL THEN Top.yielded
                                           ELSE Append(Top.yielded, r.rv))>>
           /\ ret' = r.rv
           /\ pc' = IF r.rv = NULL THEN "iterated" ELSE "iterating"
    /\ UNCHANGED <<parser, text, objs, arrs, nullpage, args, result, written, smashed,
                   exhausted, hist>>

RECURSIVE Parents(_, _)
\* parents[depth], parents[depth + 1], ... as the collecting loop fills them
Parents(obj, depth) ==
    IF obj = NULL \/ depth >= PathDepth THEN <<>>
    ELSE <<obj>> \o Parents(objs[obj].parent, depth + 1)

RECURSIVE BuildPath(_, _, _, _)
\* the building loop from parents[i - 1] down: what it returns and the
\* characters of the buffer before the terminating '\0'
BuildPath(parents, i, buffer, buffer_size) ==
    LET dotted == IF buffer # <<>> THEN Append(buffer, ".") ELSE buffer
        key    == objs[parents[i]].key
    IN  IF i = 0 THEN [ok |-> TRUE, buffer |-> buffer]
        ELSE IF buffer # <<>> /\ Len(buffer) + 1 >= buffer_size
        THEN [ok |-> FALSE, buffer |-> buffer]
        ELSE IF Len(dotted) + key.length >= buffer_size
        THEN [ok |-> FALSE, buffer |-> dotted]
        ELSE BuildPath(parents, i - 1, dotted \o Shown("FLD_VALUE_STRING", key),
                       buffer_size)

fld_iter_get_path(iter, buffer_size) ==
    IF buffer_size <= 0 THEN [ok |-> FALSE, buffer |-> <<>>]
    ELSE LET parents == Parents(iter.current, 0)
         IN  BuildPath(parents, Len(parents), <<>>, buffer_size)

\* sizes of the caller's buffer: none, too small for any path, and ample
BufferSizes == {0, 2, 4 * FLD_MAX_PATH_LENGTH}

\* fld_iter_get_path(&iter, buffer, buffer_size) on the field just returned
FldIterGetPath ==
    /\ pc = "iterating"
    /\ \E buffer_size \in BufferSizes :
          LET r == fld_iter_get_path(Top.iter, buffer_size)
          IN  /\ args' = args @@ [fn |-> "fld_iter_get_path", buffer |-> r.buffer,
                                  buffer_size |-> buffer_size]
              /\ result' = r.ok
    /\ pc' = "pathed"
    /\ UNCHANGED <<parser, text, objs, arrs, nullpage, stack, ret, written, smashed,
                   exhausted, hist>>

\* the paths two threads look up at the same time
ThreadPaths == {<<"a", ".", "b">>, <<"s">>, <<"a", ".", "b", ".", "c">>, <<"z", ".", "b">>}

\* a thread's call of fld_get_field_by_path(object, path), not yet begun
LookupFrame(object, path) ==
    [fn |-> "fld_get_field_by_path", pc |-> "begin", object |-> object, path |-> path,
     current |-> NULL, token |-> <<>>, rv |-> NULL]

\* a call returns
LookupDone(f, rv) == [f EXCEPT !.pc = "done", !.rv = rv]

\* thread t's call up to its first strtok: olds is what strtok keeps between
\* calls, one pointer for the whole process, here the characters it points at
\* and the thread whose path_copy holds them
LookupBegin(f, olds, t) ==
    LET r == strtok_r(f.path)
    IN  IF f.path = <<>> THEN [f |-> LookupDone(f, NULL), olds |-> olds]
        ELSE [f    |-> [f EXCEPT !.pc = "loop", !.current = f.object, !.token = r.token],
              olds |-> [owner |-> t, rest |-> r.save]]

\* one turn of the loop of thread t's call: strtok(NULL, "."), then the field
\* of the token at hand
LookupLoop(f, olds, t) ==
    LET r          == strtok_r(olds.rest)
        next_token == r.token
        field      == fld_get_field(f.current, f.token)
        kept       == [olds EXCEPT !.rest = r.save]
    IN  IF f.token = <<>> THEN [f |-> LookupDone(f, NULL), olds |-> olds]
        ELSE IF field = NULL THEN [f |-> LookupDone(f, NULL), olds |-> kept]
        ELSE IF next_token = <<>> THEN [f |-> LookupDone(f, field), olds |-> kept]
        ELSE IF objs[field].value.type # "FLD_VALUE_OBJECT"
        THEN [f |-> LookupDone(f, NULL), olds |-> kept]
        ELSE [f    |-> [f EXCEPT !.current = objs[field].value.object,
                                 !.token = next_token],
              olds |-> kept]

\* two threads call fld_get_field_by_path on parser.root with different paths
FldLookupStart ==
    /\ pc = "returned"
    /\ result
    /\ \E p \in ThreadPaths : \E q \in ThreadPaths \ {p} :
          stack' = <<LookupFrame(parser.root, p), LookupFrame(parser.root, q)>>
    /\ args' = args @@ [fn |-> "threads", olds |-> [owner |-> 0, rest |-> <<>>]]
    /\ pc' = "threads"
    /\ UNCHANGED <<parser, text, objs, arrs, nullpage, ret, result, written, smashed,
                   exhausted, hist>>

\* a step of one of the threads; strtok(NULL, ".") reading the path_copy of a
\* call that has returned reads a dead stack frame, which traps or gives what
\* was left there
FldLookupStep ==
    /\ pc = "threads"
    /\ \E t \in 1..2 : \E g \in {"trap", "no"} :
          LET f        == stack[t]
              r        == IF f.pc = "begin" THEN LookupBegin(f, args.olds, t)
                          ELSE LookupLoop(f, args.olds, t)
              dangling == /\ f.pc = "loop"
                          /\ f.token # <<>>
                          /\ args.olds.owner # t
                          /\ stack[args.olds.owner].pc = "done"
          IN  /\ f.pc # "done"
              /\ IF dangling /\ g = "trap"
                 THEN pc' = "crashed" /\ UNCHANGED <<stack, args>>
                 ELSE /\ stack' = [stack EXCEPT ![t] = r.f]
                      /\ args' = [args EXCEPT !.olds = r.olds]
                      /\ pc' = "threads"
    /\ UNCHANGED <<parser, text, objs, arrs, nullpage, ret, result, written, smashed,
                   exhausted, hist>>

NextApi ==
    \/ FldParseTree
    \/ FldGetFieldByPath
    \/ FldIterInit
    \/ FldIterNext
    \/ FldIterGetPath
    \/ FldLookupStart
    \/ FldLookupStep
    \/ FldParseLoop
    \/ FldParseLink
    \/ ParseField
    \/ ParseFieldValue
    \/ ParseValue
    \/ ParseVec
    \/ ParseObject
    \/ ParseObjectFields
    \/ ParseObjectLink
    \/ ParseArray
    \/ ParseArrayFirst
    \/ ParseArrayCount
    \/ ParseArrayItem

SpecApi == Init /\ [][NextApi]_vars

\* the keys of a path k1.k2...kn
PathKeys(path) ==
    LET dots == {i \in 1..Len(path) : path[i] = "."} \cup {0, Len(path) + 1}
        nth(k) == CHOOSE i \in dots : Cardinality({j \in dots : j < i}) = k
    IN  [k \in 1..(Cardinality(dots) - 1) |-> SubSeq(path, nth(k - 1) + 1, nth(k) - 1)]

\* the first field of the list at first whose key is key, null if there is none
FirstKeyed(first, key) ==
    LET list == Level(first, Len(text))
        hits == {i \in 1..Len(list) : Shown("FLD_VALUE_STRING", objs[list[i]].key) = key}
    IN  IF hits = {} THEN NULL ELSE list[CHOOSE i \in hits : \A j \in hits : i <= j]

RECURSIVE Selected(_, _)
\* the field the keys select from the list at first, null if a key is missing
\* or a field on the way is not an Object
Selected(first, keys) ==
    LET field == FirstKeyed(first, Head(keys))
    IN  IF field = NULL \/ Len(keys) = 1 THEN field
        ELSE IF objs[field].value.type # "FLD_VALUE_OBJECT" THEN NULL
        ELSE Selected(objs[field].value.object, Tail(keys))

\* fld_get_field_by_path was called with a path that is null, empty or keys
\* joined by dots
AskedPath ==
    /\ "fn" \in DOMAIN args
    /\ args.fn = "fld_get_field_by_path"
    /\ \A k \in 1..Len(PathKeys(args.path)) : PathKeys(args.path)[k] # <<>>

\* C21: fld_get_field_by_path returns the field selected key by key, the first
\* field with the key at each level, null if a key is missing or a field on
\* the way is not an Object, and null for a null or empty path; it stores
\* nothing outside its own variables.
PathSelects ==
    AskedPath =>
        /\ pc = "queried"
        /\ ~smashed
        /\ ret = IF args.null \/ args.path = <<>> THEN NULL
                 ELSE Selected(parser.root, PathKeys(args.path))

\* the loop over a recursive iterator started on parser.root has ended
WalkedTree ==
    /\ pc = "iterated"
    /\ Top.iter.type = "FLD_ITER_RECURSIVE"
    /\ args.list = parser.root

\* C22: a recursive iterator started on parser.root has returned every field
\* of the tree once, each object field before the fields below it and these
\* before the fields after it, when fld_iter_next returns null.
IterPreorder == WalkedTree => Top.yielded = Preorder(parser.root, Len(text))

\* a recursive iterator was started on the field list of a nested object
WalkingObject ==
    /\ pc \in {"iterating", "iterated"}
    /\ Top.iter.type = "FLD_ITER_RECURSIVE"
    /\ args.list # parser.root

\* the fields of the list at first and the fields below them
Subtree(first) == {Preorder(first, Len(text))[i] : i \in 1..Len(Preorder(first, Len(text)))}

\* C28: a recursive iterator started on the field list of a nested object
\* returns only fields of that list and below it, and null after the last of
\* them.
IterConfined ==
    WalkingObject =>
        /\ \A i \in 1..Len(Top.yielded) : Top.yielded[i] \in Subtree(args.list)
        /\ pc = "iterated" => Top.yielded = Preorder(args.list, Len(text))

\* no two fields of one list of the tree have the same key
UniqueKeys ==
    \A f \in Subtree(parser.root) : \A g \in Subtree(parser.root) :
        ( /\ f # g
          /\ objs[f].parent = objs[g].parent )
            => Shown("FLD_VALUE_STRING", objs[f].key) # Shown("FLD_VALUE_STRING", objs[g].key)

RECURSIVE Ancestry(_, _)
\* the key of f after the keys of the fields above it, outermost first, with
\* dots between
Ancestry(f, fuel) ==
    IF objs[f].parent = NULL \/ fuel = 0 THEN Shown("FLD_VALUE_STRING", objs[f].key)
    ELSE Ancestry(objs[f].parent, fuel - 1) \o <<".">>
         \o Shown("FLD_VALUE_STRING", objs[f].key)

\* fld_iter_get_path was called with the ample buffer on a field of a tree of
\* unique sibling keys
PathAsked ==
    /\ pc = "pathed"
    /\ args.buffer_size > FLD_MAX_PATH_LENGTH
    /\ UniqueKeys

\* C29: for a field f returned by an iterator over a tree of unique sibling
\* keys, fld_iter_get_path with a large enough buffer returns true and writes
\* the keys from the outermost ancestor to f joined by dots, and
\* fld_get_field_by_path(parser.root, path) with that path returns f.
PathRoundTrip ==
    PathAsked =>
        /\ result
        /\ args.buffer = Ancestry(Top.iter.current, Len(text))
        /\ fld_get_field_by_path(parser.root, args.buffer) = Top.iter.current

\* C30: of two fld_get_field_by_path calls with different paths that two
\* threads run at the same time, each returns the field it returns when it
\* runs alone, and neither stops the program.
LookupsIndependent ==
    /\ pc = "threads" =>
          \A t \in 1..2 :
              stack[t].pc = "done" =>
                  stack[t].rv = fld_get_field_by_path(stack[t].object, stack[t].path)
    /\ ~(pc = "crashed" /\ "olds" \in DOMAIN args)

(***************************************************************************)
(* Calls of fld_parse one after the other on one parser struct and one     *)
(* buffer: a document, then any document, then the first one again.        *)
(***************************************************************************)
\* the documents of BaseDocs and x=1;y=; which fails after a field
AgainDocs == {Cat(doc) : doc \in BaseDocs} \cup {<<"x", "=", "1", ";", "y", "=", ";">>}

\* a buffer one byte short of the estimate, and an ample one
AgainSizes(source) ==
    {_estimate_memory_needed(source) - 1, _estimate_memory_needed(source) + AmpleExtra}

\* what the caller sees after a call
Outcome ==
    [result |-> result, last_error |-> parser.last_error,
     tree |-> Tree(parser.root, Len(args.source))]

\* the first call, on a new parser
FldParseFirst ==
    /\ pc = "idle"
    /\ \E source \in AgainDocs : \E size \in AgainSizes(source) :
          /\ args' = [source |-> source, memory |-> MemBase, size |-> size, calls |-> 1]
          /\ \E g \in NullOutcomes :
                Apply(fld_parse(Ctx, source, MemBase, size, g))

\* the second call, of any document, and the third, of the first document
\* with the first buffer size, on the parser and the memory of the calls before
FldParseAgain ==
    /\ pc = "returned"
    /\ args.calls < 3
    /\ \E source \in (IF args.calls = 1 THEN AgainDocs ELSE {args.first.source}) :
       \E size \in (IF args.calls = 1 THEN AgainSizes(source) ELSE {args.first.size}) :
          /\ args' = [source |-> source, memory |-> MemBase, size |-> size,
                      calls  |-> args.calls + 1,
                      first  |-> IF args.calls = 1
                                 THEN Outcome @@ [source |-> args.source,
                                                  size |-> args.size]
                                 ELSE args.first,
                      former |-> Outcome]
          /\ \E g \in NullOutcomes :
                Apply(fld_parse(Ctx, source, MemBase, size, g))

NextAgain ==
    \/ FldParseFirst
    \/ FldParseAgain
    \/ FldParseLoop
    \/ FldParseLink
    \/ ParseField
    \/ ParseFieldValue
    \/ ParseValue
    \/ ParseVec
    \/ ParseObject
    \/ ParseObjectFields
    \/ ParseObjectLink
    \/ ParseArray
    \/ ParseArrayFirst
    \/ ParseArrayCount
    \/ ParseArrayItem

SpecAgain == Init /\ [][NextAgain]_vars

\* the third call has returned
ThirdReturned == Returned /\ args.calls = 3

\* C23: the return value, the error state and the tree of a fld_parse call on
\* a parser and a buffer that earlier calls have used, failed ones included,
\* are those of the same call on a new parser.
CallsReset ==
    ThirdReturned =>
        /\ result = args.first.result
        /\ parser.last_error = args.first.last_error
        /\ Tree(parser.root, Len(args.source)) = args.first.tree

\* a valid document parsed after a call that failed on another document that
\* had left fields behind
ValidAfterFailed ==
    /\ ThirdReturned
    /\ result
    /\ parser.root # NULL
    /\ ~args.former.result
    /\ args.former.tree # <<>>

\* _parse_array returns an array from its second pass in this step, no error
\* having been recorded
ArrayReturns ==
    /\ pc = "running"
    /\ Top.pc = "array_item"
    /\ pc' = "running"
    /\ Len(stack') = Len(stack) - 1
    /\ ret'.value.type = "FLD_VALUE_ARRAY"
    /\ parser'.last_error = NoError

\* C26: when _parse_array returns an array of one or more items, the lexer
\* cursor, line and column and the current token are those the first pass
\* ended with, the token after the closing ']' being the current one.
ArrayEndsWhereCounted ==
    [][ArrayReturns =>
            /\ parser'.lexer = Top.counted.lexer
            /\ parser'.current = Top.counted.current
            /\ parser'.previous.type = "TOKEN_BRACKET_RIGHT"]_vars

\* a=[1/*
\* **/,2//*
\* ]; : an array whose items lie on three lines
LinesArray ==
    Commented(<< <<"a">>, <<"=">>, <<"[">>, <<"1">>, <<",">>, <<"2">>, <<"]">>, <<";">> >>,
              {4, 6}, 2)

\* the array of two items on three lines was parsed in two passes
TwoPassDone ==
    /\ Returned
    /\ result
    /\ args.source = LinesArray
    /\ parser.lexer.line = 3
    /\ objs[parser.root].value.type = "FLD_VALUE_ARRAY"
    /\ objs[parser.root].value.array.count = 2

\* the bytes start .. start + length - 1 of a span lie in the copy of the
\* source text, which is the first allocation of the arena in the caller's
\* memory, and nowhere in the caller's source string
InCopy(span) ==
    /\ parser.source = parser.allocator.start
    /\ args.memory <= parser.source
    /\ parser.source + Len(text) + 1 <= args.memory + args.size
    /\ parser.source <= span.start
    /\ span.start + span.length <= parser.source + Len(text)
    /\ \/ span.start + span.length <= SourceAddr
       \/ SourceAddr + Len(args.source) + 1 <= span.start

\* the spans of the keys, of the String values and of the String array
\* elements of the objects of the arena
Spans ==
    {objs[o].key : o \in DOMAIN objs}
        \cup {objs[o].value.string :
                 o \in {x \in DOMAIN objs : objs[x].value.type = "FLD_VALUE_STRING"}}
        \cup UNION {{arrs[objs[o].value.array.items][i] :
                        i \in 1..objs[o].value.array.count} :
                    o \in {x \in DOMAIN objs :
                              /\ objs[x].value.type = "FLD_VALUE_ARRAY"
                              /\ objs[x].value.array.type = "FLD_VALUE_STRING"}}

\* C25: after a successful parse the span of every field key, of every String
\* value and of every String array element lies inside the copy of the source
\* text that the arena holds, inside the caller's memory buffer and outside
\* the caller's source string.
SpansInCopy == (Returned /\ result) => \A span \in Spans : InCopy(span)

\* ab="st";c=["u","vw"]; was parsed: the key ab, the String st and the
\* elements u and vw are spans
StringsParsed ==
    /\ Returned
    /\ result
    /\ args.source = StringsDoc
    /\ Cardinality(Spans) = 5
    /\ {[i \in 1..span.length |-> text[span.start - parser.source + i]] : span \in Spans}
          = {<<"a", "b">>, <<"s", "t">>, <<"c">>, <<"u">>, <<"v", "w">>}

(***************************************************************************)
(* fld_parse with ample memory, run to its end.                            *)
(***************************************************************************)
\* the caller calls fld_parse with a buffer larger than the estimate
FldParseAmple ==
    /\ pc = "idle"
    /\ \E source \in Sources :
          LET size == _estimate_memory_needed(source) + AmpleExtra
          IN  /\ args' = [source |-> source, memory |-> MemBase, size |-> size]
              /\ \E g \in NullOutcomes :
                    Apply(fld_parse(Ctx, source, MemBase, size, g))

NextLive ==
    \/ FldParseAmple
    \/ FldParseLoop
    \/ FldParseLink
    \/ ParseField
    \/ ParseFieldValue
    \/ ParseValue
    \/ ParseVec
    \/ ParseObject
    \/ ParseObjectFields
    \/ ParseObjectLink
    \/ ParseArray
    \/ ParseArrayFirst
    \/ ParseArrayCount
    \/ ParseArrayItem

\* the block the function on top of the stack is at
BlockAt(g) ==
    LET rv == Pointee(ret)
    IN  CASE Top.pc = "parse_loop"   -> ParseLoop(Ctx, Top, rv, g)
          [] Top.pc = "parse_link"   -> ParseLink(Ctx, Top, rv, g)
          [] Top.pc = "field_begin"  -> _parse_field(Ctx, Top, rv, g)
          [] Top.pc = "field_value"  -> FieldValue(Ctx, Top, rv, g)
          [] Top.pc = "value"        -> _parse_value(Ctx, Top, rv, g)
          [] Top.pc = "vec"          -> _parse_vec(Ctx, Top, rv, g)
          [] Top.pc = "object_begin" -> _parse_object(Ctx, Top, rv, g)
          [] Top.pc = "object_loop"  -> _parse_object_fields(Ctx, Top, rv, g)
          [] Top.pc = "object_link"  -> ObjectLink(Ctx, Top, rv, g)
          [] Top.pc = "array_begin"  -> _parse_array(Ctx, Top, rv, g)
          [] Top.pc = "array_first"  -> ArrayFirst(Ctx, Top, rv, g)
          [] Top.pc = "array_count"  -> ArrayCount(Ctx, Top, rv, g)
          [] Top.pc = "array_item"   -> ArrayItem(Ctx, Top, rv, g)

\* the block leaves the memory or the call stack changed
Moves(out) ==
    \/ out.c # Ctx
    \/ out.op \in {"call", "ret"}
    \/ out.op = "goto" /\ out.frame # Top
    \/ out.op = "become" /\ out.callee # Top

\* ENABLED <<NextLive>>_vars of a call that is running: the thread has a step
\* to take
CanStep == pc = "running" /\ \E g \in NullOutcomes : Moves(BlockAt(g))

\* the thread that called fld_parse keeps running while it has a step to
\* take: weak fairness of the steps of the call, with ENABLED written out
ThreadRuns == []<>(~CanStep) \/ []<><<NextLive>>_vars

SpecLive == Init /\ [][NextLive]_vars /\ ThreadRuns

\* between two tokens, a scan that does not give TOKEN_EOF leaves the cursor
\* at least one character further
ScanAdvances ==
    pc = "running" =>
        LET r == _lexer_scan_token(Ctx, "trap")
        IN  r.tok.type # "TOKEN_EOF" => r.c.p.lexer.current > parser.lexer.current

\* C27: with ample memory every call of fld_parse ends: it returns, or the
\* process is stopped by the store past num_str of a number of too many
\* digits; it never hangs, and every scan between two tokens that does not
\* give TOKEN_EOF moves the cursor forward.
ParseTerminates ==
    /\ []ScanAdvances
    /\ [](pc # "hung")
    /\ (pc = "running") ~> (pc = "returned" \/ (pc = "crashed" /\ smashed))

\* a parse that went through nested objects, arrays rewound for their second
\* pass and skipped error tokens has returned
LongParseEnded ==
    /\ Returned
    /\ args.source \in Nested \cup Arrays \cup Soup
    /\ Len(args.source) >= 10

(***************************************************************************)
(* Two threads, each calling fld_parse on a parser struct and a memory     *)
(* buffer of its own.  The variables of the parser's state hold what the   *)
(* thread that runs has: its parser struct, its copy of the source, its    *)
(* call stack and return values; args.other holds those of the thread that *)
(* waits.  objs and arrs are the one memory of the process.  Each thread   *)
(* first runs alone, then the two run together, a block at a time.         *)
(***************************************************************************)
SecondBase == 131072    \* address of the second thread's memory region

\* two threads given one memory region
SameBuffer == <<MemBase, MemBase>>

\* void *memory of the calls of the two threads
Buffers == <<MemBase, SecondBase>>

\* a={b="s";}; a=[1,2]; and a=; which fails
TwoDocs ==
    { <<"a", "=", "{", "b", "=", "\"", "s", "\"", ";", "}", ";">>,
      <<"a", "=", "[", "1", ",", "2", "]", ";">>,
      <<"a", "=", ";">> }

\* the calls: a document with a buffer one byte short of the estimate or an
\* ample one
TwoCalls ==
    UNION {{[source |-> source, size |-> size] :
               size \in {_estimate_memory_needed(source) - 1,
                         _estimate_memory_needed(source) + AmpleExtra}} :
           source \in TwoDocs}

\* what a thread has of its own
Local ==
    [parser |-> parser, text |-> text, nullpage |-> nullpage, stack |-> stack,
     ret |-> ret, pc |-> pc, result |-> result, written |-> written,
     smashed |-> smashed, exhausted |-> exhausted, hist |-> hist]

\* a thread that has not called fld_parse yet: fld_parser parser = {0};
NewThread ==
    [parser |-> ZeroParser, text |-> <<>>, nullpage |-> "unread", stack |-> <<>>,
     ret |-> [object |-> NULL], pc |-> "idle", result |-> FALSE, written |-> FALSE,
     smashed |-> FALSE, exhausted |-> FALSE, hist |-> Err("FLD_ERROR_NONE", 0, 0)]

\* the call of thread t
CallOf(calls, t) ==
    [source |-> calls[t].source, memory |-> Buffers[t], size |-> calls[t].size]

\* the first thread calls fld_parse, alone
FldParseAlone ==
    /\ pc = "idle"
    /\ "phase" \notin DOMAIN args
    /\ \E first \in TwoCalls : \E second \in TwoCalls :
          LET calls == <<first, second>>
              call  == CallOf(calls, 1)
          IN  /\ args' = call @@ [phase |-> "alone", turn |-> 1, calls |-> calls,
                                  alone |-> <<>>, other |-> NewThread, mixed |-> FALSE]
              /\ \E g \in NullOutcomes :
                    Apply(fld_parse(Ctx, call.source, call.memory, call.size, g))

\* the first thread has returned: the second calls fld_parse, alone; both
\* have: the first calls fld_parse again, now with the second about to call
FldParseNext ==
    /\ pc = "returned"
    /\ "phase" \in DOMAIN args
    /\ args.phase = "alone"
    /\ LET t    == 3 - args.turn
           call == CallOf(args.calls, t)
       IN  /\ args' = call @@ [args EXCEPT !.turn = t,
                                           !.alone = Append(@, Outcome),
                                           !.phase = IF t = 1 THEN "both" ELSE "alone"]
           /\ \E g \in NullOutcomes :
                 Apply(fld_parse(FreshCtx, call.source, call.memory, call.size, g))

\* the scheduler takes the thread that runs off the processor and puts the
\* other one on
Switch ==
    /\ pc \in {"running", "returned"}
    /\ "phase" \in DOMAIN args
    /\ args.phase = "both"
    /\ args.other.pc \in {"idle", "running"} \/ pc = "returned"
    /\ LET t == 3 - args.turn
       IN  args' = CallOf(args.calls, t)
                     @@ [args EXCEPT !.turn = t, !.other = Local,
                                     !.mixed = @ \/ (pc = "running"
                                                       /\ args.other.pc = "running")]
    /\ parser' = args.other.parser
    /\ text' = args.other.text
    /\ nullpage' = args.other.nullpage
    /\ stack' = args.other.stack
    /\ ret' = args.other.ret
    /\ pc' = args.other.pc
    /\ result' = args.other.result
    /\ written' = args.other.written
    /\ smashed' = args.other.smashed
    /\ exhausted' = args.other.exhausted
    /\ hist' = args.other.hist
    /\ UNCHANGED <<objs, arrs>>

\* the second thread calls fld_parse while the first is in its call or has
\* returned
FldParseSecond ==
    /\ pc = "idle"
    /\ "phase" \in DOMAIN args
    /\ args.phase = "both"
    /\ UNCHANGED args
    /\ \E g \in NullOutcomes :
          Apply(fld_parse(Ctx, args.source, args.memory, args.size, g))

NextTwo ==
    \/ FldParseAlone
    \/ FldParseNext
    \/ Switch
    \/ FldParseSecond
    \/ FldParseLoop
    \/ FldParseLink
    \/ ParseField
    \/ ParseFieldValue
    \/ ParseValue
    \/ ParseVec
    \/ ParseObject
    \/ ParseObjectFields
    \/ ParseObjectLink
    \/ ParseArray
    \/ ParseArrayFirst
    \/ ParseArrayCount
    \/ ParseArrayItem

SpecTwo == Init /\ [][NextTwo]_vars

\* the two calls that ran together have returned
BothReturned ==
    /\ pc = "returned"
    /\ "phase" \in DOMAIN args
    /\ args.phase = "both"
    /\ args.other.pc = "returned"

\* C24: two fld_parse calls that run together on two parser structs with
\* disjoint memory buffers end, whatever the order of their steps, each with
\* the return value, the error state and the tree it has when it runs alone.
ParsesIndependent == BothReturned => Outcome = args.alone[args.turn]

\* two calls on different documents ran with their steps mixed and both gave
\* a tree
MixedParses ==
    /\ BothReturned
    /\ args.mixed
    /\ result
    /\ args.other.result
    /\ args.calls[1].source # args.calls[2].source
    /\ Buffers[1] + args.calls[1].size <= Buffers[2]
    /\ parser.root # NULL
    /\ args.other.parser.root # NULL

====
